---- MODULE Spec2Model ----
(***************************************************************************)
(* ambient-analytics: the API route handlers (experiments/src/app/api),    *)
(* the SQL cleanup routines applied to LLM responses, and the client-side  *)
(* orchestration pages that chain the handlers per user question.          *)
(*                                                                         *)
(* The specifications of this module share one list of variables:          *)
(*   SpecApi      - one request at a time through a route handler          *)
(*   SpecClean    - the cleanup routines as pure functions of the LLM text *)
(*   SpecPage     - a chat page: sendMessage / refineSQL request chains    *)
(*   SpecColumns  - the column fetches of a turn, joined by Promise.all    *)
(*   SpecIdentify - identifyTablesLogic on the LLM answer, and the page    *)
(*   SpecDb       - the handlers that query the shared Postgres database   *)
(*   SpecPrompt   - the execution context of a refine-sql request          *)
(*   SpecDataset  - the LangSmith dataset calls of the evaluation routes   *)
(*   SpecQuestions - generate-questions on the LLM answer                   *)
(*   SpecSelect   - the schema / table selection effects and their fetches *)
(*   SpecPageFair - SpecPage with every fetch eventually settling          *)
(***************************************************************************)
EXTENDS Integers, Sequences, FiniteSets, TLC

VARIABLES
    apiPc,      \* "idle" | "pending" | "done": position of the route handler
    apiReq,     \* the request being handled (endpoint, body, process.env)
    apiResp,    \* the NextResponse.json(...) the handler returned
    apiConn,    \* pg Client of this request: "none" | "open" | "closed"
    apiExt,     \* what the external services answered to this request
    apiFeedback, \* what the SQL correctness evaluator returned to langsmith
    cleanRoute, \* the route whose cleanup runs, "none" before the first pass
    cleanInput, \* message.content of the completion, a sequence of characters
    cleanPasses, \* the cleaned SQL after each pass of the cleanup
    page,       \* the page component that is mounted
    messages,   \* useState<Message[]>: the conversation of a chat page
    pageError,  \* the error state(s) a form page shows
    now,        \* Date.now() at the latest send
    sendPc,     \* the step whose request sendMessage awaits, or "idle"
    sendId,     \* assistantMessageId of the running or latest sendMessage call
    sendResult, \* the local variable result of that call
    turns,      \* sendMessage / submit calls so far
    turnLog,    \* requests of the running or latest call, in issue order
    failed,     \* every failed step so far: [id, call, step]
    refining,   \* refineSQL calls in flight: [id, pc]
    refiningSQL, \* useState<string | null>: the message being refined
    refines,    \* refineSQL calls so far
    charting,   \* generateChart(messageId, useRefined) calls in flight
    generatingChart, \* useState<string | null> of DashboardCreator
    charts,     \* generateChart(messageId, useRefined) calls so far
    clears,     \* setMessages([]) effects so far
    loading,    \* the loading flags that are true
    form,       \* the output states of a form page: generatedSQL,
                \* queryResults, interpretation, chartConfig
    relevantTables, \* sendMessage's local: the table names identified
    columnPromises, \* relevantTables.map(async ...): one promise per name
    settleOrder,    \* the indices of the column fetches, in settling order
    tablesWithColumns, \* sendMessage's local, [] until Promise.all resolves,
                    \* and then the assistant message's field
    columnsError,   \* the assistant message's error field
    columnsPc,      \* "identify" | "identified" | "columns" | "generate" |
                    \* "returned"
    requestTables,  \* tables of the identify-relevant-tables request body
    responseText,   \* the text the LLM answered to it, a sequence of tokens
    database,   \* the Postgres database behind DEMO_POSTGRES_DATABASE_URL
    dbPc,       \* "idle" | "pending" | "done": a handler that reaches the driver
    dbReq,      \* its request: the user, the endpoint and the body
    dbCall,     \* the arguments of its client.query call
    dbResp,     \* the response it returned
    dbWriters,  \* the users whose requests have changed the database
    promptPc,   \* "message" | "requested" | "prompted": a refine-sql request
    promptMessage, \* the chat message being refined, or NoMessage
    promptBody, \* executionResult of the request body, as JSON carries it
    promptContext, \* the executionContext refineSQLLogic puts in the prompt
    datasets,   \* the LangSmith datasets named datasetName, in creation order
    evalPc,     \* per POST to an evaluation endpoint: the call it awaits
    questionsPc, \* "idle" | "completed" | "done": a generate-questions request
    questionsText, \* responseText, the JSON text of the completion
    questionsResp, \* the response the handler returned
    selectedSchema, \* the schema picked on the page, "" when none
    selectedTable, \* the table picked, "" when none
    tableList, \* the page's tables state, as the set of table names
    columnList, \* the page's columns state, as a set of columns
    sampleData, \* the page's sampleData state, as a set of rows
    fetchLoading, \* the introspection kinds whose loading flag is true
    fetchError, \* the introspection kinds whose error text is set
    fetches, \* the introspection fetches in flight
    selections \* number of selections made

apiVars == <<apiPc, apiReq, apiResp, apiConn, apiExt, apiFeedback>>

cleanVars == <<cleanRoute, cleanInput, cleanPasses>>

pageVars ==
    <<page, messages, pageError, now, sendPc, sendId, sendResult, turns, turnLog,
      failed, refining, refiningSQL, refines, charting, generatingChart, charts,
      clears, form, loading>>

columnVars ==
    <<relevantTables, columnPromises, settleOrder, tablesWithColumns,
      columnsError, columnsPc, requestTables, responseText>>

dbVars == <<database, dbPc, dbReq, dbCall, dbResp, dbWriters>>

promptVars == <<promptPc, promptMessage, promptBody, promptContext>>

datasetVars == <<datasets, evalPc>>

questionsVars == <<questionsPc, questionsText, questionsResp>>

selectVars ==
    <<selectedSchema, selectedTable, tableList, columnList, sampleData,
      fetchLoading, fetchError, fetches, selections>>

vars ==
    <<apiVars, cleanVars, pageVars, columnVars, dbVars, promptVars,
      datasetVars, questionsVars, selectVars>>

\* what the route handlers leave alone
notApiVars ==
    <<cleanVars, pageVars, columnVars, dbVars, promptVars, datasetVars,
      questionsVars, selectVars>>

\* what the cleanup routines leave alone
notCleanVars ==
    <<apiVars, pageVars, columnVars, dbVars, promptVars, datasetVars,
      questionsVars, selectVars>>

\* what the pages leave alone
notPageVars ==
    <<apiVars, cleanVars, columnVars, dbVars, promptVars, datasetVars,
      questionsVars, selectVars>>

\* what the column fetches of a turn leave alone
notColumnVars ==
    <<apiVars, cleanVars, pageVars, dbVars, promptVars, datasetVars,
      questionsVars, selectVars>>

\* what building the refinement prompt leaves alone
notPromptVars ==
    <<apiVars, cleanVars, pageVars, columnVars, dbVars, datasetVars,
      questionsVars, selectVars>>

\* what the evaluation endpoints' dataset calls leave alone
notDatasetVars == <<apiVars, cleanVars, pageVars, columnVars, dbVars,
      promptVars, questionsVars, selectVars>>

\* what the handlers that query the database leave alone
notDbVars ==
    <<apiVars, cleanVars, pageVars, columnVars, promptVars, datasetVars,
      questionsVars, selectVars>>

\* what the generate-questions handler leaves alone
notQuestionsVars ==
    <<apiVars, cleanVars, pageVars,
      columnVars, dbVars, promptVars, datasetVars, selectVars>>

\* what the selection effects of a page leave alone
notSelectVars ==
    <<apiVars, cleanVars, pageVars, columnVars,
      dbVars, promptVars, datasetVars, questionsVars>>

(***************************************************************************)
(* JavaScript values                                                       *)
(***************************************************************************)
\* null / undefined / a key JSON.stringify drops
Null == "null"

\* a JSON number n/100, an absent key, or a non-numeric JSON value
Num(n) == [kind |-> "num", v |-> n]
AbsentScore == [kind |-> "absent", v |-> 0]
TextScore == [kind |-> "text", v |-> 0]

\* the score values an LLM's JSON may carry (hundredths): -0.2, 0, 0.65, 0.9,
\* 0.95, 1, 1.5, no score key, a string
ScoreJson == {Num(-20), Num(0), Num(65), Num(90), Num(95), Num(100), Num(150),
              AbsentScore, TextScore}

\* JS truthiness of a score value: undefined and 0 are falsy
Truthy(s) == ~(s.kind = "absent" \/ (s.kind = "num" /\ s.v = 0))

(***************************************************************************)
(* Responses                                                               *)
(***************************************************************************)
NoData == [tag |-> "none", score |-> AbsentScore, lists |-> "none"]

\* NextResponse.json({ error }, { status })
ErrorResponse(status, msg) ==
    [status |-> status, error |-> msg, result |-> "absent", data |-> NoData]

\* NextResponse.json({ ...payload }) with the default status 200
OkResponse(tag) ==
    [status |-> 200, error |-> Null, result |-> "absent",
     data |-> [tag |-> tag, score |-> AbsentScore, lists |-> "none"]]

\* the answers of the database driver and of the chat-completion API
NoExt == [connect |-> "na", query |-> "na", llm |-> "na", content |-> "na"]

Ext(connect, query, llm, content) ==
    [connect |-> connect, query |-> query, llm |-> llm, content |-> content]

\* one handler run: the response, the state its pg Client is left in, and the
\* external answers it consumed
Outcome(resp, conn, ext) == [resp |-> resp, conn |-> conn, ext |-> ext]

(***************************************************************************)
(* Requests                                                                *)
(***************************************************************************)
DbEndpoints == {"schemas", "tables", "columns", "foreign-keys", "sample-data"}

JsonEndpoints == {"evaluate-sql-query", "optimize-erd-layout",
                  "generate-questions", "identify-relevant-tables"}

TextEndpoints == {"generate-sql", "generate-sql-traced", "generate-sql-context",
                  "generate-joined-sql", "refine-sql", "interpret-results",
                  "generate-chart-config", "analyze-schema"}

LangsmithEndpoints == {"evaluate-sql-generation", "evaluate-langsmith"}

Endpoints == DbEndpoints \cup JsonEndpoints \cup TextEndpoints
             \cup LangsmithEndpoints
             \cup {"execute-sql", "generate-and-execute"}

\* the body fields a handler tests or dereferences (truthy when in the set)
BodyFields(e) ==
    CASE e = "schemas" -> {"env"}
      [] e \in {"tables", "foreign-keys"} -> {"env", "schema"}
      [] e \in {"columns", "sample-data"} -> {"env", "schema", "table"}
      [] e = "execute-sql" -> {"env", "sql"}
      [] e = "evaluate-sql-query" -> {"question", "generatedSQL"}
      [] e = "optimize-erd-layout" -> {"tablesWithColumns", "foreignKeys"}
      [] e \in {"generate-questions", "analyze-schema"} ->
            {"env", "schema", "tablesWithColumns"}
      [] e = "identify-relevant-tables" -> {"query", "tables"}
      [] e \in {"generate-sql", "generate-and-execute"} ->
            {"env", "schema", "table", "naturalLanguageQuery", "columns"}
      [] e \in {"generate-sql-traced", "generate-sql-context"} ->
            {"env", "schema", "naturalLanguageQuery"}
      [] e = "generate-joined-sql" -> {"query", "tablesWithColumns"}
      [] e = "refine-sql" -> {"question", "originalSQL", "evaluation"}
      [] e = "interpret-results" -> {"naturalLanguageQuery", "sql", "result"}
      [] e = "generate-chart-config" -> {"naturalLanguageQuery", "result"}
      [] e \in LangsmithEndpoints -> {}

\* a request: whether request.json() parses, the truthy body fields, and the
\* two environment variables of the deployment
Requests ==
    UNION { { [endpoint |-> e, json |-> j, body |-> b, dbUrl |-> d, apiKey |-> k] :
                j \in BOOLEAN, b \in SUBSET BodyFields(e), d \in BOOLEAN,
                k \in BOOLEAN } : e \in Endpoints }

NoReq == [endpoint |-> "none", json |-> TRUE, body |-> {}, dbUrl |-> TRUE,
          apiKey |-> TRUE]

NoFeedback == [key |-> "none", score |-> AbsentScore, comment |-> Null]

ApiIdle ==
    /\ apiPc = "idle"
    /\ apiReq = NoReq
    /\ apiResp = ErrorResponse(0, Null)
    /\ apiConn = "none"
    /\ apiExt = NoExt
    /\ apiFeedback = NoFeedback

\* a request arrives at a route
Receive ==
    /\ apiPc \in {"idle", "done"}
    /\ \E r \in Requests : apiReq' = r
    /\ apiPc' = "pending"
    /\ apiResp' = ErrorResponse(0, Null)
    /\ apiConn' = "none"
    /\ apiExt' = NoExt
    /\ apiFeedback' = NoFeedback
    /\ UNCHANGED notApiVars

\* the handler of endpoint e returns outcome o
Return(e, o) ==
    /\ apiPc = "pending"
    /\ apiReq.endpoint = e
    /\ apiPc' = "done"
    /\ apiResp' = o.resp
    /\ apiConn' = o.conn
    /\ apiExt' = o.ext
    /\ UNCHANGED <<apiReq, apiFeedback>>
    /\ UNCHANGED notApiVars

ConnectAnswers == {"ok", "fail"}
QueryAnswers == {"ok", "throw"}

(***************************************************************************)
(* Schema introspection handlers: connect, one catalog query, end          *)
(***************************************************************************)
\* mutant: the { status: 500 } argument left out
DbNotConfiguredNoStatus ==
    ErrorResponse(200, "Database connection string not configured")

DbNotConfigured == ErrorResponse(500, "Database connection string not configured")

\* the shape shared by schemas, tables, columns, foreign-keys and
\* sample-data: client.end() follows the query inside the same try block
Introspect(req, required, missingMsg, failMsg, tag, connect, query) ==
    IF ~req.json
    THEN Outcome(ErrorResponse(500, failMsg), "none", NoExt)
    ELSE IF ~(required \subseteq req.body)
    THEN Outcome(ErrorResponse(400, missingMsg), "none", NoExt)
    ELSE IF ~req.dbUrl
    THEN Outcome(DbNotConfigured, "none", NoExt)
    ELSE IF connect = "fail"
    THEN Outcome(ErrorResponse(500, failMsg), "none", Ext("fail", "na", "na", "na"))
    ELSE IF query = "throw"
    THEN Outcome(ErrorResponse(500, failMsg), "open", Ext("ok", "throw", "na", "na"))
    ELSE Outcome(OkResponse(tag), "closed", Ext("ok", "ok", "na", "na"))

SchemasPOST ==
    \E c \in ConnectAnswers, q \in QueryAnswers :
        Return("schemas",
               Introspect(apiReq, {"env"}, "Environment is required",
                          "Failed to fetch schemas", "schemas", c, q))

TablesPOST ==
    \E c \in ConnectAnswers, q \in QueryAnswers :
        Return("tables",
               Introspect(apiReq, {"env", "schema"},
                          "Environment and schema are required",
                          "Failed to fetch tables", "tables", c, q))

ColumnsPOST ==
    \E c \in ConnectAnswers, q \in QueryAnswers :
        Return("columns",
               Introspect(apiReq, {"env", "schema", "table"},
                          "Environment, schema, and table are required",
                          "Failed to fetch columns", "columns", c, q))

ForeignKeysPOST ==
    \E c \in ConnectAnswers, q \in QueryAnswers :
        Return("foreign-keys",
               Introspect(apiReq, {"env", "schema"},
                          "Environment and schema are required",
                          "Failed to fetch foreign keys", "foreignKeys", c, q))

SampleDataPOST ==
    \E c \in ConnectAnswers, q \in QueryAnswers :
        Return("sample-data",
               Introspect(apiReq, {"env", "schema", "table"},
                          "Environment, schema, and table are required",
                          "Failed to fetch sample data", "sample", c, q))

(***************************************************************************)
(* SQL executor                                                            *)
(***************************************************************************)
\* the messages a driver error may carry; "" is an error without a message
DriverMessages == {"", "division by zero"}

\* mutant: execError.message without the fallback
ExecutionErrorOfRaw(msg) == msg

\* execError.message || "Failed to execute SQL"
ExecutionErrorOf(msg) == IF msg = "" THEN "Failed to execute SQL" ELSE msg

\* NextResponse.json({ result: executionResult, error: executionError })
ExecutionResponse(query, msg) ==
    IF query = "ok"
    THEN [status |-> 200, error |-> Null, result |-> "rows",
          data |-> [tag |-> "result", score |-> AbsentScore, lists |-> "none"]]
    ELSE [status |-> 200, error |-> ExecutionErrorOf(msg), result |-> "absent",
          data |-> NoData]

\* execute-sql: the query runs in an inner try whose finally ends the client
ExecuteSql(req, connect, query, msg) ==
    IF ~req.json
    THEN Outcome(ErrorResponse(500, "Failed to execute SQL"), "none", NoExt)
    ELSE IF ~({"env", "sql"} \subseteq req.body)
    THEN Outcome(ErrorResponse(400, "Environment and SQL are required"), "none", NoExt)
    ELSE IF ~req.dbUrl
    THEN Outcome(DbNotConfigured, "none", NoExt)
    ELSE IF connect = "fail"
    THEN Outcome(ErrorResponse(500, "Failed to execute SQL"), "none",
                 Ext("fail", "na", "na", "na"))
    ELSE Outcome(ExecutionResponse(query, msg), "closed",
                 Ext("ok", query, "na", "na"))

ExecuteSqlPOST ==
    \E c \in ConnectAnswers, q \in QueryAnswers, m \in DriverMessages :
        Return("execute-sql", ExecuteSql(apiReq, c, q, m))

(***************************************************************************)
(* LLM gateway: what the chat completion returned                          *)
(***************************************************************************)
LlmAnswers == {"ok", "throw"}

\* message.content of the completion: null, text that JSON.parse rejects, or
\* a JSON document with the keys the handlers read
LlmContents ==
    { [kind |-> k, score |-> s, lists |-> l, items |-> n] :
        k \in {"null", "garbage", "json"}, s \in ScoreJson,
        l \in {"absent", "given"}, n \in {"none", "some"} }

\* evaluation.score || 0
ScoreOrZero(s) == IF Truthy(s) THEN s ELSE Num(0)

\* evaluation.strengths || [], evaluation.issues || []
ListsOrEmpty(l) == IF l = "absent" THEN "empty" ELSE l

\* JSON.parse(response.choices[0].message.content || "{}")
ParsedOrEmpty(content) ==
    IF content.kind = "null"
    THEN [kind |-> "json", score |-> AbsentScore, lists |-> "absent", items |-> "none"]
    ELSE content

\* NextResponse.json({ success: true, evaluation: {...} })
EvaluationResponse(evaluation) ==
    [status |-> 200, error |-> Null, result |-> "absent",
     data |-> [tag |-> "evaluation", score |-> ScoreOrZero(evaluation.score),
               lists |-> ListsOrEmpty(evaluation.lists)]]

\* evaluate-sql-query: JSON.parse is inside the handler's only try block
EvaluateSqlQuery(req, llm, content) ==
    IF ~req.json
    THEN Outcome(ErrorResponse(500, "Unexpected end of JSON input"), "none", NoExt)
    ELSE IF ~({"question", "generatedSQL"} \subseteq req.body)
    THEN Outcome(ErrorResponse(400, "Question and generated SQL are required"),
                 "none", NoExt)
    ELSE IF llm = "throw"
    THEN Outcome(ErrorResponse(500, "Connection error."), "none",
                 Ext("na", "na", "throw", "na"))
    ELSE IF content.kind = "garbage"
    THEN Outcome(ErrorResponse(500, "Unexpected token in JSON"), "none",
                 Ext("na", "na", "ok", "garbage"))
    ELSE Outcome(EvaluationResponse(ParsedOrEmpty(content)), "none",
                 Ext("na", "na", "ok", content.kind))

EvaluateSqlQueryPOST ==
    \E l \in LlmAnswers, c \in LlmContents :
        Return("evaluate-sql-query", EvaluateSqlQuery(apiReq, l, c))

\* the evaluator of evaluate-sql-generation: its own try/catch around the
\* completion and JSON.parse; score: result.score
createSQLCorrectnessEvaluator(llm, content) ==
    IF llm = "throw" \/ content.kind = "garbage"
    THEN [key |-> "sql_correctness", score |-> Num(0), comment |-> "Evaluation failed"]
    ELSE [key |-> "sql_correctness", score |-> ParsedOrEmpty(content).score,
          comment |-> "reasoning"]

\* langsmith's evaluate() calls the evaluator on an example's output
SqlCorrectnessEvaluator ==
    /\ apiPc = "pending"
    /\ apiReq.endpoint = "evaluate-sql-generation"
    /\ apiReq.json
    /\ apiFeedback = NoFeedback
    /\ \E l \in LlmAnswers, c \in LlmContents :
        /\ apiFeedback' = createSQLCorrectnessEvaluator(l, c)
        /\ apiExt' = Ext("na", "na", l, IF l = "ok" THEN c.kind ELSE "na")
    /\ UNCHANGED <<apiPc, apiReq, apiResp, apiConn>>
    /\ UNCHANGED notApiVars

\* evaluate-sql-generation and evaluate-langsmith: langsmith calls inside
\* one try; { success: false, error: error.message } with status 500
LangsmithRun(req, langsmith, ext) ==
    IF ~req.json \/ langsmith = "throw"
    THEN Outcome(ErrorResponse(500, "Unknown error occurred"), "none", ext)
    ELSE Outcome(OkResponse("evaluation-run"), "none", ext)

EvaluateSqlGenerationPOST ==
    /\ \E a \in LlmAnswers :
        Return("evaluate-sql-generation", LangsmithRun(apiReq, a, apiExt))

EvaluateLangsmithPOST ==
    /\ \E a \in LlmAnswers :
        Return("evaluate-langsmith", LangsmithRun(apiReq, a, apiExt))

\* optimize-erd-layout: foreignKeys.map is dereferenced unchecked; an empty
\* completion throws "No response from AI"; JSON.parse is unguarded
OptimizeErdLayout(req, llm, content) ==
    IF ~req.json
    THEN Outcome(ErrorResponse(500, "Failed to optimize layout"), "none", NoExt)
    ELSE IF "tablesWithColumns" \notin req.body
    THEN Outcome(ErrorResponse(400, "Tables with columns are required"), "none", NoExt)
    ELSE IF "foreignKeys" \notin req.body
    THEN Outcome(ErrorResponse(500, "Failed to optimize layout"), "none", NoExt)
    ELSE IF llm = "throw"
    THEN Outcome(ErrorResponse(500, "Failed to optimize layout"), "none",
                 Ext("na", "na", "throw", "na"))
    ELSE IF content.kind \in {"null", "garbage"}
    THEN Outcome(ErrorResponse(500, "Failed to optimize layout"), "none",
                 Ext("na", "na", "ok", content.kind))
    ELSE Outcome(OkResponse("layout"), "none", Ext("na", "na", "ok", "json"))

OptimizeErdLayoutPOST ==
    \E l \in LlmAnswers, c \in LlmContents :
        Return("optimize-erd-layout", OptimizeErdLayout(apiReq, l, c))

\* generate-questions: a parse failure is rethrown, and so is an empty list
GenerateQuestions(req, llm, content) ==
    IF ~req.json
    THEN Outcome(ErrorResponse(500, "Failed to generate questions"), "none", NoExt)
    ELSE IF ~({"env", "schema", "tablesWithColumns"} \subseteq req.body)
    THEN Outcome(ErrorResponse(400, "Environment, schema, and tablesWithColumns are required"),
                 "none", NoExt)
    ELSE IF ~req.apiKey
    THEN Outcome(ErrorResponse(500, "OpenAI API key not configured"), "none", NoExt)
    ELSE IF llm = "throw"
    THEN Outcome(ErrorResponse(500, "Failed to generate questions"), "none",
                 Ext("na", "na", "throw", "na"))
    ELSE IF content.kind = "garbage" \/ ParsedOrEmpty(content).items = "none"
    THEN Outcome(ErrorResponse(500, "Failed to generate questions"), "none",
                 Ext("na", "na", "ok", content.kind))
    ELSE Outcome([status |-> 200, error |-> Null, result |-> "absent",
                  data |-> [tag |-> "questions", score |-> AbsentScore,
                            lists |-> "given"]],
                 "none", Ext("na", "na", "ok", "json"))

GenerateQuestionsPOST ==
    \E l \in LlmAnswers, c \in LlmContents :
        Return("generate-questions", GenerateQuestions(apiReq, l, c))

\* mutant: the parsed list used without the try/catch default
RelevantTablesOfUnguarded(content) ==
    IF content.items = "some" THEN "given" ELSE "empty"

\* identifyTablesLogic: no array in the text, or an array JSON.parse
\* rejects, gives relevantTables = []
RelevantTablesOf(content) ==
    IF content.kind = "json" /\ content.items = "some" THEN "given" ELSE "empty"

IdentifyRelevantTables(req, llm, content) ==
    IF ~req.json
    THEN Outcome(ErrorResponse(500, "Failed to identify relevant tables"), "none", NoExt)
    ELSE IF ~({"query", "tables"} \subseteq req.body)
    THEN Outcome(ErrorResponse(400, "Query and tables array are required"), "none", NoExt)
    ELSE IF llm = "throw"
    THEN Outcome(ErrorResponse(500, "Failed to identify relevant tables"), "none",
                 Ext("na", "na", "throw", "na"))
    ELSE Outcome([status |-> 200, error |-> Null, result |-> "absent",
                  data |-> [tag |-> "relevantTables", score |-> AbsentScore,
                            lists |-> RelevantTablesOf(content)]],
                 "none", Ext("na", "na", "ok", content.kind))

IdentifyRelevantTablesPOST ==
    \E l \in LlmAnswers, c \in LlmContents :
        Return("identify-relevant-tables", IdentifyRelevantTables(apiReq, l, c))

ApiJsonActions ==
    \/ EvaluateSqlQueryPOST
    \/ SqlCorrectnessEvaluator
    \/ EvaluateSqlGenerationPOST
    \/ EvaluateLangsmithPOST
    \/ OptimizeErdLayoutPOST
    \/ GenerateQuestionsPOST
    \/ IdentifyRelevantTablesPOST

(***************************************************************************)
(* LLM handlers that return text                                           *)
(***************************************************************************)
KeyNotConfigured == ErrorResponse(500, "OpenAI API key not configured")

\* validate the body, optionally test OPENAI_API_KEY, dereference, call the
\* model, return the text under one key; any throw reaches the outer catch
LlmText(req, required, keyCheck, deref, missingMsg, failMsg, tag, llm) ==
    IF ~req.json
    THEN Outcome(ErrorResponse(500, failMsg), "none", NoExt)
    ELSE IF ~(required \subseteq req.body)
    THEN Outcome(ErrorResponse(400, missingMsg), "none", NoExt)
    ELSE IF keyCheck /\ ~req.apiKey
    THEN Outcome(KeyNotConfigured, "none", NoExt)
    ELSE IF ~(deref \subseteq req.body)
    THEN Outcome(ErrorResponse(500, failMsg), "none", NoExt)
    ELSE IF llm = "throw" \/ ~req.apiKey
    THEN Outcome(ErrorResponse(500, failMsg), "none", Ext("na", "na", "throw", "na"))
    ELSE Outcome(OkResponse(tag), "none", Ext("na", "na", "ok", "text"))

GenerateSqlPOST ==
    \E l \in LlmAnswers :
        Return("generate-sql",
               LlmText(apiReq, {"env", "schema", "table", "naturalLanguageQuery"},
                       TRUE, {"columns"},
                       "Environment, schema, table, and natural language query are required",
                       "Failed to generate SQL", "sql", l))

GenerateSqlTracedPOST ==
    \E l \in LlmAnswers :
        Return("generate-sql-traced",
               LlmText(apiReq, {"env", "schema", "naturalLanguageQuery"}, TRUE, {},
                       "Environment, schema, and natural language query are required",
                       "Failed to generate SQL", "sql", l))

GenerateSqlContextPOST ==
    \E l \in LlmAnswers :
        Return("generate-sql-context",
               LlmText(apiReq, {"env", "schema", "naturalLanguageQuery"}, TRUE, {},
                       "Environment, schema, and natural language query are required",
                       "Failed to generate SQL", "sql", l))

GenerateJoinedSqlPOST ==
    \E l \in LlmAnswers :
        Return("generate-joined-sql",
               LlmText(apiReq, {"query", "tablesWithColumns"}, FALSE, {},
                       "Query and tablesWithColumns array are required",
                       "Failed to generate SQL query", "sql", l))

RefineSqlPOST ==
    \E l \in LlmAnswers :
        Return("refine-sql",
               LlmText(apiReq, {"question", "originalSQL", "evaluation"}, FALSE, {},
                       "Question, original SQL, and evaluation are required",
                       "Unknown error occurred", "refinedSQL", l))

InterpretResultsPOST ==
    \E l \in LlmAnswers :
        Return("interpret-results",
               LlmText(apiReq, {"naturalLanguageQuery", "sql", "result"}, TRUE, {},
                       "Natural language query, SQL, and result are required",
                       "Failed to generate interpretation", "interpretation", l))

AnalyzeSchemaPOST ==
    \E l \in LlmAnswers :
        Return("analyze-schema",
               LlmText(apiReq, {"env", "schema", "tablesWithColumns"}, TRUE, {},
                       "Environment, schema, and tablesWithColumns are required",
                       "Failed to analyze schema", "analysis", l))

\* generate-chart-config: its own catch around JSON.parse and the shape test
GenerateChartConfig(req, llm, content) ==
    LET o == LlmText(req, {"naturalLanguageQuery", "result"}, TRUE, {},
                     "Natural language query and result are required",
                     "Failed to generate chart configuration", "chartConfig", llm)
    IN  IF o.resp.status = 200 /\ content.kind # "json"
        THEN Outcome(ErrorResponse(500, "Failed to parse chart configuration"),
                     "none", Ext("na", "na", "ok", content.kind))
        ELSE o

GenerateChartConfigPOST ==
    \E l \in LlmAnswers, c \in LlmContents :
        Return("generate-chart-config", GenerateChartConfig(apiReq, l, c))

\* the generate-and-execute handler: generate as generate-sql does, then
\* execute as execute-sql does and answer { sql, result, error, interpretation }
GenerateAndExecute(req, llm, connect, query, msg) ==
    LET o == LlmText(req, {"env", "schema", "table", "naturalLanguageQuery"},
                     TRUE, {"columns"},
                     "Environment, schema, table, and natural language query are required",
                     "Failed to generate SQL", "sql", llm)
    IN  IF o.resp.status # 200
        THEN o
        ELSE IF ~req.dbUrl
        THEN Outcome(DbNotConfigured, "none", o.ext)
        ELSE IF connect = "fail"
        THEN Outcome(ErrorResponse(500, "Failed to generate SQL"), "none",
                     Ext("fail", "na", "ok", "text"))
        ELSE Outcome(ExecutionResponse(query, msg), "closed",
                     Ext("ok", query, "ok", "text"))

GenerateAndExecutePOST ==
    \E l \in LlmAnswers, c \in ConnectAnswers, q \in QueryAnswers,
       m \in DriverMessages :
        Return("generate-and-execute", GenerateAndExecute(apiReq, l, c, q, m))

ApiTextActions ==
    \/ GenerateSqlPOST
    \/ GenerateSqlTracedPOST
    \/ GenerateSqlContextPOST
    \/ GenerateJoinedSqlPOST
    \/ RefineSqlPOST
    \/ InterpretResultsPOST
    \/ AnalyzeSchemaPOST
    \/ GenerateChartConfigPOST
    \/ GenerateAndExecutePOST

ApiDbActions ==
    \/ SchemasPOST
    \/ TablesPOST
    \/ ColumnsPOST
    \/ ForeignKeysPOST
    \/ SampleDataPOST
    \/ ExecuteSqlPOST

NextApi == Receive \/ ApiDbActions \/ ApiJsonActions \/ ApiTextActions

\* no cleanup in progress
CleanIdle ==
    /\ cleanRoute = "none"
    /\ cleanInput = <<>>
    /\ cleanPasses = <<>>

\* a page before its first question
NoTurn ==
    /\ messages = <<>>
    /\ pageError = Null
    /\ now = 0
    /\ sendPc = "idle"
    /\ sendId = 0
    /\ sendResult = Null
    /\ turns = 0
    /\ turnLog = <<>>
    /\ failed = {}
    /\ refining = <<>>
    /\ refiningSQL = 0
    /\ refines = 0
    /\ charting = <<>>
    /\ generatingChart = 0
    /\ charts = 0
    /\ clears = 0
    /\ loading = {}
    /\ form = [generatedSQL |-> "", queryResults |-> Null,
               interpretation |-> "", chartConfig |-> Null]

\* no page mounted
PageIdle == page = "none" /\ NoTurn

\* no column fetch issued
ColumnsIdle ==
    /\ relevantTables = <<>>
    /\ columnPromises = <<>>
    /\ settleOrder = <<>>
    /\ tablesWithColumns = <<>>
    /\ columnsError = Null
    /\ columnsPc = "none"
    /\ requestTables = <<>>
    /\ responseText = <<>>

\* no request at the database
DbIdle ==
    /\ database = {}
    /\ dbPc = "idle"
    /\ dbReq = [user |-> "none", endpoint |-> "none"]
    /\ dbCall = [text |-> <<>>, params |-> <<>>]
    /\ dbResp = [status |-> 0, error |-> Null, rows |-> <<>>]
    /\ dbWriters = {}

\* messages.find(...) found nothing
NoMessage ==
    [page |-> "none", executed |-> FALSE, rowCount |-> 0, result |-> <<>>,
     error |-> Null]

\* no refine-sql request
PromptIdle ==
    /\ promptPc = "idle"
    /\ promptMessage = NoMessage
    /\ promptBody = <<>>
    /\ promptContext = "none"

\* no POST to an evaluation endpoint
DatasetIdle ==
    /\ datasets = <<>>
    /\ evalPc = <<>>

\* no completion
NoText == [shape |-> "none", items |-> <<>>]

\* no generate-questions request
QuestionsIdle ==
    /\ questionsPc = "idle"
    /\ questionsText = NoText
    /\ questionsResp = [status |-> 0, error |-> Null, questions |-> <<>>]

\* the selection effects of a page idle
SelectIdle ==
    /\ selectedSchema = ""
    /\ selectedTable = ""
    /\ tableList = {}
    /\ columnList = {}
    /\ sampleData = {}
    /\ fetchLoading = {}
    /\ fetchError = {}
    /\ fetches = {}
    /\ selections = 0

InitApi ==
    /\ SelectIdle
    /\ QuestionsIdle
    /\ ApiIdle /\ CleanIdle /\ PageIdle /\ ColumnsIdle /\ DbIdle /\ PromptIdle
    /\ DatasetIdle

SpecApi == InitApi /\ [][NextApi]_vars

(***************************************************************************)
(* SQL cleanup of the LLM response (generate-sql, refine-sql,              *)
(* generate-joined-sql).  A text is a sequence of characters.              *)
(***************************************************************************)
MaxChunks == 4
MaxPasses == 2

\* the backquote character
Backquote == "backquote"

Fence == <<Backquote, Backquote, Backquote>>
SqlFence == Fence \o <<"s", "q", "l">>
Newline == <<"\n">>

\* the pieces response texts are built from
Chunks == {Fence, <<"s", "q", "l">>, <<Backquote>>, Newline, <<" ">>, <<";">>, <<"x">>}

RECURSIVE TextsOf(_)
TextsOf(n) ==
    IF n = 0 THEN {<<>>}
    ELSE LET shorter == TextsOf(n - 1)
         IN  shorter \cup {t \o c : t \in shorter, c \in Chunks}

Texts == TextsOf(MaxChunks)

\* String.prototype.trim
IsSpace(c) == c \in {" ", "\n"}

RECURSIVE TrimStart(_)
TrimStart(s) ==
    IF s # <<>> /\ IsSpace(Head(s)) THEN TrimStart(Tail(s)) ELSE s

RECURSIVE TrimEnd(_)
TrimEnd(s) ==
    IF s # <<>> /\ IsSpace(s[Len(s)])
    THEN TrimEnd(SubSeq(s, 1, Len(s) - 1))
    ELSE s

Trim(s) == TrimEnd(TrimStart(s))

StartsWith(s, p) == Len(s) >= Len(p) /\ SubSeq(s, 1, Len(p)) = p
EndsWith(s, p) == Len(s) >= Len(p) /\ SubSeq(s, Len(s) - Len(p) + 1, Len(s)) = p
Drop(s, n) == SubSeq(s, n + 1, Len(s))
Contains(s, p) == \E i \in 1..(Len(s) - Len(p) + 1) : SubSeq(s, i, i + Len(p) - 1) = p

\* s.replace(/<fence>\n?/g, empty): every match, leftmost first, not overlapping
RECURSIVE ReplaceAllFences(_, _)
ReplaceAllFences(s, fence) ==
    IF s = <<>> THEN <<>>
    ELSE IF StartsWith(s, fence)
    THEN LET rest == Drop(s, Len(fence))
         IN  ReplaceAllFences(IF StartsWith(rest, Newline) THEN Tail(rest) ELSE rest,
                              fence)
    ELSE <<Head(s)>> \o ReplaceAllFences(Tail(s), fence)

\* s.replace(/^<fence>\n/, "")
ReplaceLeadingFence(s, fence) ==
    IF StartsWith(s, fence \o Newline) THEN Drop(s, Len(fence) + 1) ELSE s

\* s.replace(/\n<fence>$/, empty), the fence being three backquotes
ReplaceTrailingFence(s) ==
    IF EndsWith(s, Newline \o Fence) THEN SubSeq(s, 1, Len(s) - Len(Fence) - 1) ELSE s

\* generate-sql: content?.trim(), the two global replaces, trim
GenerateSqlCleanedSQL(content) ==
    Trim(ReplaceAllFences(ReplaceAllFences(Trim(content), SqlFence), Fence))

\* refine-sql: the same chain on the refined SQL
RefineSqlCleanedSQL(content) ==
    Trim(ReplaceAllFences(ReplaceAllFences(Trim(content), SqlFence), Fence))

\* generate-joined-sql: one leading and one trailing fence line, then a
\* semicolon is appended unless the trimmed text already ends with one
GenerateJoinedCleanedSql(content) ==
    LET sql == Trim(content)
        unfenced ==
            IF StartsWith(sql, SqlFence)
            THEN ReplaceTrailingFence(ReplaceLeadingFence(sql, SqlFence))
            ELSE IF StartsWith(sql, Fence)
            THEN ReplaceTrailingFence(ReplaceLeadingFence(sql, Fence))
            ELSE sql
    IN  IF ~EndsWith(Trim(unfenced), <<";">>)
        THEN Trim(unfenced) \o <<";">>
        ELSE unfenced

CleanedBy(route, content) ==
    CASE route = "generate-sql" -> GenerateSqlCleanedSQL(content)
      [] route = "refine-sql" -> RefineSqlCleanedSQL(content)
      [] route = "generate-joined-sql" -> GenerateJoinedCleanedSql(content)

InitClean ==
    /\ SelectIdle
    /\ QuestionsIdle
    /\ ApiIdle
    /\ PageIdle
    /\ ColumnsIdle
    /\ DbIdle
    /\ PromptIdle
    /\ DatasetIdle
    /\ cleanRoute = "none"
    /\ cleanInput \in Texts
    /\ cleanPasses = <<>>

FirstPass(route) ==
    /\ cleanRoute = "none"
    /\ cleanRoute' = route
    /\ cleanPasses' = <<CleanedBy(route, cleanInput)>>
    /\ UNCHANGED cleanInput
    /\ UNCHANGED notCleanVars

GenerateSqlCleanup == FirstPass("generate-sql")

RefineSqlCleanup == FirstPass("refine-sql")

GenerateJoinedSqlCleanup == FirstPass("generate-joined-sql")

\* the route is given SQL it has cleaned before as the next response text
CleanupAgain ==
    /\ cleanRoute # "none"
    /\ Len(cleanPasses) < MaxPasses
    /\ cleanPasses' =
         Append(cleanPasses, CleanedBy(cleanRoute, cleanPasses[Len(cleanPasses)]))
    /\ UNCHANGED <<cleanRoute, cleanInput>>
    /\ UNCHANGED notCleanVars

NextClean ==
    \/ GenerateSqlCleanup
    \/ RefineSqlCleanup
    \/ GenerateJoinedSqlCleanup
    \/ CleanupAgain

SpecClean == InitClean /\ [][NextClean]_vars

(***************************************************************************)
(* Orchestration pages: each chains route handlers per user question.      *)
(*   DashboardCreator    chart-js-generation/page.tsx (chat with charts)   *)
(*   JoinTables          the join-tables chat                              *)
(*   SQLWithEvaluation   query-generation/page.tsx (chat with refinement)  *)
(*   EvaluateFirst       the SQLWithEvaluation chat that evaluates before  *)
(*                       it executes and has no refinement                 *)
(*   NaturalLanguageChat the NaturalLanguageToSQL chat                     *)
(*   ChartJSGeneration   the one-question chart form                       *)
(*   NaturalLanguageToSQL the one-question SQL form                        *)
(***************************************************************************)
MaxTurns == 2
MaxGap == 2
MaxRefines == 2
MaxCharts == 1
MaxClears == 1

\* message.evaluation.score < 0.9, in hundredths
RefineThreshold == 90

\* useState<string | null>(null): no message id
NoId == 0

RefinePages == {"DashboardCreator", "JoinTables", "SQLWithEvaluation"}
ChatPages == RefinePages \cup {"EvaluateFirst", "NaturalLanguageChat"}
FormPages == {"ChartJSGeneration", "NaturalLanguageToSQL"}
Pages == ChatPages \cup FormPages

\* scores an evaluation arrives with, in hundredths
Scores == {65, 90}

\* the order in which sendMessage / generateChart / generateSQL fetch
DashboardCreatorPipeline ==
    <<"identify", "columns", "generate", "execute", "evaluate", "interpret">>
JoinTablesPipeline ==
    <<"identify", "columns", "generate", "execute", "evaluate", "interpret">>
SQLWithEvaluationPipeline == <<"generate", "execute", "evaluate", "interpret">>
EvaluateFirstPipeline == <<"generate", "evaluate", "execute", "interpret">>
NaturalLanguageChatPipeline == <<"generate", "execute", "interpret">>
ChartJSGenerationPipeline == <<"generate", "execute", "interpret", "chart">>
NaturalLanguageToSQLPipeline == <<"generate", "execute", "interpret">>

Pipeline(p) ==
    CASE p = "DashboardCreator" -> DashboardCreatorPipeline
      [] p = "JoinTables" -> JoinTablesPipeline
      [] p = "SQLWithEvaluation" -> SQLWithEvaluationPipeline
      [] p = "EvaluateFirst" -> EvaluateFirstPipeline
      [] p = "NaturalLanguageChat" -> NaturalLanguageChatPipeline
      [] p = "ChartJSGeneration" -> ChartJSGenerationPipeline
      [] p = "NaturalLanguageToSQL" -> NaturalLanguageToSQLPipeline

\* what the catch block of a step does:
\*   "halt"     the error is shown and the call returns
\*   "continue" the error is shown and the call goes on
\*   "log"      console.error only, the call goes on
\* mutant: the generate-sql catch block without its return
SQLWithEvaluationOnFailureNoReturn(step) ==
    CASE step = "generate" -> "continue"
      [] step = "execute" -> "continue"
      [] OTHER -> "log"

SQLWithEvaluationOnFailure(step) ==
    CASE step = "generate" -> "halt"
      [] step = "execute" -> "continue"
      [] OTHER -> "log"

\* mutant: the execute-sql failure only logged
DashboardCreatorOnFailureLogged(step) ==
    CASE step \in {"identify", "columns", "generate"} -> "halt"
      [] OTHER -> "log"

DashboardCreatorOnFailure(step) ==
    CASE step \in {"identify", "columns", "generate"} -> "halt"
      [] step = "execute" -> "continue"
      [] OTHER -> "log"

JoinTablesOnFailure(step) ==
    CASE step \in {"identify", "columns", "generate"} -> "halt"
      [] step = "execute" -> "continue"
      [] OTHER -> "log"

EvaluateFirstOnFailure(step) ==
    CASE step \in {"generate", "execute"} -> "halt"
      [] OTHER -> "log"

NaturalLanguageChatOnFailure(step) ==
    CASE step \in {"generate", "execute"} -> "halt"
      [] OTHER -> "log"

\* mutant: a failed interpretation ends generateChart() with an error
ChartJSGenerationOnFailureHalting(step) ==
    CASE step \in {"generate", "execute", "interpret"} -> "halt"
      [] step = "chart" -> "continue"
      [] OTHER -> "log"

ChartJSGenerationOnFailure(step) ==
    CASE step \in {"generate", "execute"} -> "halt"
      [] step = "chart" -> "continue"
      [] OTHER -> "log"

NaturalLanguageToSQLOnFailure(step) ==
    CASE step \in {"generate", "execute"} -> "halt"
      [] OTHER -> "log"

OnFailure(p, step) ==
    CASE p = "DashboardCreator" -> DashboardCreatorOnFailure(step)
      [] p = "JoinTables" -> JoinTablesOnFailure(step)
      [] p = "SQLWithEvaluation" -> SQLWithEvaluationOnFailure(step)
      [] p = "EvaluateFirst" -> EvaluateFirstOnFailure(step)
      [] p = "NaturalLanguageChat" -> NaturalLanguageChatOnFailure(step)
      [] p = "ChartJSGeneration" -> ChartJSGenerationOnFailure(step)
      [] p = "NaturalLanguageToSQL" -> NaturalLanguageToSQLOnFailure(step)

\* if (result) { ... } around interpret-results; ChartJSGeneration returns
\* before both of its last steps when there is no result
NeedsResult(p, step) ==
    step = "interpret" \/ (p = "ChartJSGeneration" /\ step = "chart")

\* what a fetch of the step can come back with:
\*   "ok"     a 2xx response without an error field
\*   "error"  execute-sql: 200 whose body has the error field set
\*   "empty"  identify-relevant-tables: 200 with no table
\*   "failed" a non-OK response or a rejected fetch
Answers(step) ==
    CASE step = "evaluate" ->
            {[outcome |-> "ok", score |-> sc] : sc \in Scores}
                \cup {[outcome |-> "failed", score |-> 0]}
      [] step = "execute" ->
            {[outcome |-> o, score |-> 0] : o \in {"ok", "error", "failed"}}
      [] step = "identify" ->
            {[outcome |-> o, score |-> 0] : o \in {"ok", "empty", "failed"}}
      [] OTHER ->
            {[outcome |-> o, score |-> 0] : o \in {"ok", "failed"}}

Fails(a) == a.outcome \in {"error", "failed"}

\* the pages that fetch generate-sql, which answers 200 with sql "" when the
\* completion is empty or only a fence ("blank"); generate-joined-sql always
\* appends a semicolon
GenerateSqlPages ==
    {"SQLWithEvaluation", "EvaluateFirst", "NaturalLanguageChat",
     "ChartJSGeneration", "NaturalLanguageToSQL"}

\* sql = data.sql || "" of the running call is the empty string
BlankSql(log) ==
    \E i \in DOMAIN log : log[i].step = "generate" /\ log[i].outcome = "blank"

\* mutant: execute-sql without its check of the sql field
StepAnswersUnvalidated(p, step, log) ==
    CASE step = "generate" /\ p \in GenerateSqlPages ->
            Answers(step) \cup {[outcome |-> "blank", score |-> 0]}
      [] OTHER -> Answers(step)

\* what the fetch of a step of the running call can come back with:
\* execute-sql and evaluate-sql-query answer 400 to an empty sql
StepAnswers(p, step, log) ==
    CASE step = "generate" /\ p \in GenerateSqlPages ->
            Answers(step) \cup {[outcome |-> "blank", score |-> 0]}
      [] step \in {"execute", "evaluate"} /\ BlankSql(log) ->
            {[outcome |-> "failed", score |-> 0]}
      [] OTHER -> Answers(step)

\* the text the catch block (or the data.error branch) shows
ErrorText(step, a) ==
    CASE a.outcome = "error" -> "division by zero"
      [] step = "identify" -> "Failed to identify relevant tables"
      [] step = "columns" -> "Failed to fetch columns for relevant tables"
      [] step = "generate" -> "Failed to generate SQL"
      [] step = "execute" -> "Failed to execute SQL"
      [] step = "chart" -> "Failed to generate chart visualization"
      [] OTHER -> "Failed"

NoRelevantTables == "No relevant tables identified for your query"

\* a Message; an optional field that is not set is Null, an evaluation is a
\* sequence that is empty or holds the score
NewMessage(id, role, question) ==
    [id |-> id, role |-> role, userQuestion |-> question,
     relevantTables |-> Null, tablesWithColumns |-> Null, sql |-> Null,
     result |-> Null, error |-> Null, evaluation |-> <<>>,
     interpretation |-> Null, refinedSQL |-> Null, refinedResult |-> Null,
     refinedEvaluation |-> <<>>, chartConfig |-> Null,
     refinedChartConfig |-> Null]

\* { ...msg, ...patch }
Merge(msg, patch) ==
    [f \in DOMAIN msg |-> IF f \in DOMAIN patch THEN patch[f] ELSE msg[f]]

\* mutant: the update applied to every assistant message
SetMessagesByRole(msgs, id, patch) ==
    [i \in DOMAIN msgs |->
        IF msgs[i].role = "assistant" THEN Merge(msgs[i], patch) ELSE msgs[i]]

\* setMessages(prev => prev.map(msg => msg.id === id ? {...msg, ...patch} : msg))
SetMessages(msgs, id, patch) ==
    [i \in DOMAIN msgs |->
        IF msgs[i].id = id THEN Merge(msgs[i], patch) ELSE msgs[i]]

\* no setMessages call
NoPatch == [none |-> Null]

\* the fields the success branch of a step sets
SuccessPatch(step, a) ==
    CASE step = "identify" -> [relevantTables |-> "tables"]
      [] step = "columns" -> [tablesWithColumns |-> "columns"]
      [] step = "generate" -> [sql |-> "sql"]
      [] step = "execute" -> [result |-> "rows"]
      [] step = "evaluate" -> [evaluation |-> <<a.score>>]
      [] step = "interpret" -> [interpretation |-> "text"]
      [] OTHER -> NoPatch

\* what a returning step writes to the assistant message
StepPatch(p, step, a) ==
    IF a.outcome = "ok" THEN SuccessPatch(step, a)
    ELSE IF a.outcome = "blank" THEN [sql |-> ""]
    ELSE IF a.outcome = "empty"
    THEN [relevantTables |-> "none", error |-> NoRelevantTables]
    ELSE IF OnFailure(p, step) = "log" THEN NoPatch
    ELSE [error |-> ErrorText(step, a)]

\* does the call return after this answer
Halts(p, step, a) ==
    \/ a.outcome = "empty"
    \/ Fails(a) /\ OnFailure(p, step) = "halt"

\* the steps of the pipeline after position i that the call still fetches
RECURSIVE NextStepFrom(_, _, _)
NextStepFrom(p, i, result) ==
    IF i > Len(Pipeline(p)) THEN "idle"
    ELSE IF NeedsResult(p, Pipeline(p)[i]) /\ result = Null
    THEN IF p = "ChartJSGeneration" THEN "idle" ELSE NextStepFrom(p, i + 1, result)
    ELSE Pipeline(p)[i]

PositionOf(p, step) == CHOOSE i \in DOMAIN Pipeline(p) : Pipeline(p)[i] = step

NextStep(p, step, a, result) ==
    IF Halts(p, step, a) THEN "idle"
    ELSE NextStepFrom(p, PositionOf(p, step) + 1, result)

\* messages.find(m => m.id === messageId): the index, 0 when there is none
Find(msgs, id) ==
    IF \E i \in DOMAIN msgs : msgs[i].id = id
    THEN CHOOSE i \in DOMAIN msgs :
            msgs[i].id = id /\ \A j \in 1..(i - 1) : msgs[j].id # id
    ELSE 0

\* is the refine button rendered for the message
DashboardCreatorRefineShown(m) ==
    /\ m.error = Null
    /\ m.evaluation # <<>>
    /\ m.evaluation[1] < RefineThreshold
    /\ m.userQuestion # Null /\ m.sql # Null /\ m.refinedSQL = Null

JoinTablesRefineShown(m) ==
    /\ m.error = Null
    /\ m.evaluation # <<>>
    /\ m.evaluation[1] < RefineThreshold
    /\ m.userQuestion # Null /\ m.sql # Null /\ m.refinedSQL = Null

SQLWithEvaluationRefineShown(m) ==
    /\ m.evaluation # <<>>
    /\ m.evaluation[1] < RefineThreshold
    /\ m.refinedSQL = Null

RefineShown(p, m) ==
    /\ m.role = "assistant"
    /\ CASE p = "DashboardCreator" -> DashboardCreatorRefineShown(m)
         [] p = "JoinTables" -> JoinTablesRefineShown(m)
         [] p = "SQLWithEvaluation" -> SQLWithEvaluationRefineShown(m)
         [] OTHER -> FALSE

\* the guard at the top of refineSQL
CanRefine(p, m) ==
    /\ m.sql \notin {Null, ""} /\ m.evaluation # <<>> /\ m.userQuestion # Null
    /\ p \in {"DashboardCreator", "JoinTables"} => m.tablesWithColumns # Null

\* is a Generate Chart button of DashboardCreator rendered for the message
ChartShown(m, useRefined) ==
    /\ m.role = "assistant"
    /\ m.error = Null
    /\ IF useRefined
       THEN m.refinedSQL # Null /\ m.refinedResult = "rows"
                /\ m.refinedChartConfig = Null
       ELSE m.result # Null /\ m.chartConfig = Null

\* without the i-th element
Without(seq, i) == SubSeq(seq, 1, i - 1) \o SubSeq(seq, i + 1, Len(seq))

\* the loading flag that is true while the fetch of the step is awaited
FlagOf(step) ==
    CASE step = "identify" -> "identifyingTables"
      [] step = "columns" -> "fetchingColumns"
      [] step = "generate" -> "generatingSQL"
      [] step = "execute" -> "executingSQL"
      [] step = "evaluate" -> "evaluating"
      [] step = "interpret" -> "generatingInterpretation"
      [] step = "chart" -> "generatingChart"

\* mutant: the evaluating flag left out of the disabled expression
DisablingFlagsWithoutEvaluating(p) ==
    CASE p \in {"DashboardCreator", "JoinTables"} ->
            {"identifyingTables", "fetchingColumns", "generatingSQL",
             "executingSQL", "generatingInterpretation"}
      [] p \in {"SQLWithEvaluation", "EvaluateFirst"} ->
            {"generatingSQL", "executingSQL", "generatingInterpretation"}
      [] p = "ChartJSGeneration" ->
            {"generatingSQL", "executingSQL", "generatingInterpretation",
             "generatingChart"}
      [] OTHER -> {"generatingSQL", "executingSQL", "generatingInterpretation"}

\* the flags in the disabled expression of the page's input and button
DisablingFlags(p) ==
    CASE p \in {"DashboardCreator", "JoinTables"} ->
            {"identifyingTables", "fetchingColumns", "generatingSQL",
             "executingSQL", "evaluating", "generatingInterpretation"}
      [] p \in {"SQLWithEvaluation", "EvaluateFirst"} ->
            {"generatingSQL", "evaluating", "executingSQL",
             "generatingInterpretation"}
      [] p = "ChartJSGeneration" ->
            {"generatingSQL", "executingSQL", "generatingInterpretation",
             "generatingChart"}
      [] OTHER -> {"generatingSQL", "executingSQL", "generatingInterpretation"}

\* mutant: the returns of the catch blocks without the reset of the flag
LoadingAfterNoReset(flags, step, next) ==
    IF next = "idle" /\ step # "interpret" /\ step # "chart" THEN flags
    ELSE IF next = "idle" THEN flags \ {FlagOf(step)}
    ELSE (flags \ {FlagOf(step)}) \cup {FlagOf(next)}

\* the flags after the awaited fetch of step has settled: its flag is reset
\* on every path (after the try block, in its finally block and before each
\* return), and the flag of the step requested next is set
LoadingAfter(flags, step, next) ==
    IF next = "idle" THEN flags \ {FlagOf(step)}
    ELSE (flags \ {FlagOf(step)}) \cup {FlagOf(next)}

\* disabled={...}: a turn cannot be started
InputDisabled(p) == loading \cap DisablingFlags(p) # {}

\* the output states of a form page after the resets at the top of
\* generateSQL() / generateChart()
EmptyForm ==
    [generatedSQL |-> "", queryResults |-> Null, interpretation |-> "",
     chartConfig |-> Null]

\* the setGeneratedSQL / setQueryResult(s) / setInterpretation /
\* setChartConfig call of a step of a form page
FormPatch(f, step, a) ==
    IF a.outcome # "ok" THEN f
    ELSE CASE step = "generate" -> [f EXCEPT !.generatedSQL = "sql"]
           [] step = "execute" -> [f EXCEPT !.queryResults = "rows"]
           [] step = "interpret" -> [f EXCEPT !.interpretation = "text"]
           [] step = "chart" -> [f EXCEPT !.chartConfig = "config"]

InitPage ==
    /\ SelectIdle
    /\ QuestionsIdle
    /\ ApiIdle
    /\ CleanIdle
    /\ ColumnsIdle
    /\ DbIdle
    /\ PromptIdle
    /\ DatasetIdle
    /\ page \in Pages
    /\ messages = <<>>
    /\ pageError = Null
    /\ now = 0
    /\ sendPc = "idle"
    /\ sendId = NoId
    /\ sendResult = Null
    /\ turns = 0
    /\ turnLog = <<>>
    /\ failed = {}
    /\ refining = <<>>
    /\ refiningSQL = NoId
    /\ refines = 0
    /\ charting = <<>>
    /\ generatingChart = NoId
    /\ charts = 0
    /\ clears = 0
    /\ form = EmptyForm
    /\ loading = {}

\* a request of the call: the step, how its fetch settled, and, for
\* evaluate-sql-query, the executionSuccess flag of the body and what the
\* body carries of the execution ("result", "error" or "nothing")
Requested(step) ==
    [step |-> step, outcome |-> "pending", executionSuccess |-> "absent",
     attached |-> "nothing"]

\* the evaluate-sql-query body after the answer a of the step before it.
\* DashboardCreator, JoinTables and SQLWithEvaluation evaluate after
\* execute-sql: executionSuccess: !executionError, executionError,
\* executionResult: result.  EvaluateFirst evaluates after generate-sql:
\* executionSuccess: true and nothing else.
EvaluateRequested(p, a) ==
    IF p = "EvaluateFirst"
    THEN [step |-> "evaluate", outcome |-> "pending", executionSuccess |-> "true",
          attached |-> "nothing"]
    ELSE [step |-> "evaluate", outcome |-> "pending",
          executionSuccess |-> IF Fails(a) THEN "false" ELSE "true",
          attached |-> IF Fails(a) THEN "error" ELSE "result"]

\* the generate-chart-config body of ChartJSGeneration after the answer a
\* of interpret-results: interpretation: interpretationText, which is ""
\* unless the interpretation arrived
ChartRequested(a) ==
    [step |-> "chart", outcome |-> "pending", executionSuccess |-> "absent",
     attached |-> IF a.outcome = "ok" THEN "interpretation"
                  ELSE "empty interpretation"]

\* the request the call issues next
RequestedAfter(p, step, a) ==
    IF step = "evaluate" THEN EvaluateRequested(p, a)
    ELSE IF step = "chart" THEN ChartRequested(a)
    ELSE Requested(step)

\* sendMessage up to its first fetch: the user message with id Date.now(),
\* the assistant placeholder with id Date.now() + 1.  The input is disabled
\* while a loading flag is set, i.e. while a step of an earlier call is
\* awaited; the question typed since the latest send took at least 1 ms.
SendMessage ==
    /\ page \in ChatPages
    /\ ~InputDisabled(page)
    /\ turns < MaxTurns
    /\ \E gap \in 1..MaxGap :
        LET t == now + gap
            question == IF page \in RefinePages THEN "question" ELSE Null
        IN  /\ now' = t
            /\ sendId' = t + 1
            /\ messages' = messages \o <<NewMessage(t, "user", Null),
                                         NewMessage(t + 1, "assistant", question)>>
    /\ sendPc' = Pipeline(page)[1]
    /\ sendResult' = Null
    /\ turnLog' = <<Requested(Pipeline(page)[1])>>
    /\ turns' = turns + 1
    /\ loading' = loading \cup {FlagOf(Pipeline(page)[1])}
    /\ UNCHANGED form
    /\ UNCHANGED <<page, pageError, failed, refining, refiningSQL, refines,
                   charting, generatingChart, charts, clears>>
    /\ UNCHANGED notPageVars

\* generateChart() of ChartJSGeneration and generateSQL() of
\* NaturalLanguageToSQL up to the first fetch: earlier output is reset
Submit ==
    /\ page \in FormPages
    /\ ~InputDisabled(page)
    /\ turns < MaxTurns
    /\ pageError' = Null
    /\ failed' = {}
    /\ form' = EmptyForm
    /\ loading' = loading \cup {FlagOf(Pipeline(page)[1])}
    /\ sendPc' = Pipeline(page)[1]
    /\ sendResult' = Null
    /\ turnLog' = <<Requested(Pipeline(page)[1])>>
    /\ turns' = turns + 1
    /\ UNCHANGED <<page, messages, now, sendId, refining, refiningSQL, refines,
                   charting, generatingChart, charts, clears>>
    /\ UNCHANGED notPageVars

\* the awaited fetch of the running call settles; the call handles the
\* answer and either returns or issues its next fetch
StepReturns ==
    /\ sendPc # "idle"
    /\ \E a \in StepAnswers(page, sendPc, turnLog) :
        LET result == IF sendPc = "execute" /\ a.outcome = "ok"
                      THEN "rows" ELSE sendResult
            next == NextStep(page, sendPc, a, result)
            settled == [turnLog EXCEPT ![Len(turnLog)].outcome = a.outcome]
        IN  /\ sendResult' = result
            /\ sendPc' = next
            /\ turnLog' = IF next = "idle" THEN settled
                          ELSE Append(settled, RequestedAfter(page, next, a))
            /\ failed' = IF Fails(a)
                         THEN failed \cup {[id |-> sendId, call |-> "send",
                                            step |-> sendPc]}
                         ELSE failed
            /\ IF page \in ChatPages
               THEN /\ messages' =
                         SetMessages(messages, sendId, StepPatch(page, sendPc, a))
                    /\ UNCHANGED pageError
               ELSE /\ pageError' =
                         IF Fails(a) /\ OnFailure(page, sendPc) # "log"
                         THEN ErrorText(sendPc, a) ELSE pageError
                    /\ UNCHANGED messages
            /\ form' = IF page \in FormPages THEN FormPatch(form, sendPc, a)
                       ELSE form
            /\ loading' = LoadingAfter(loading, sendPc, next)
    /\ UNCHANGED <<page, now, sendId, turns, refining, refiningSQL, refines,
                   charting, generatingChart, charts, clears>>
    /\ UNCHANGED notPageVars

\* mutant: clearing the conversation also abandons the running call
ClearConversationCancels ==
    /\ page \in ChatPages
    /\ clears < MaxClears
    /\ messages # <<>>
    /\ messages' = <<>>
    /\ clears' = clears + 1
    /\ sendPc' = "idle"
    /\ UNCHANGED <<form, loading>>
    /\ UNCHANGED <<page, pageError, now, sendId, sendResult, turns,
                   turnLog, failed, refining, refiningSQL, refines, charting,
                   generatingChart, charts>>
    /\ UNCHANGED notPageVars

\* the effects on selectedEnv / selectedSchema / selectedTable
ClearConversation ==
    /\ page \in ChatPages
    /\ clears < MaxClears
    /\ messages # <<>>
    /\ messages' = <<>>
    /\ clears' = clears + 1
    /\ UNCHANGED <<form, loading>>
    /\ UNCHANGED <<page, pageError, now, sendPc, sendId, sendResult, turns,
                   turnLog, failed, refining, refiningSQL, refines, charting,
                   generatingChart, charts>>
    /\ UNCHANGED notPageVars

\* a click on an enabled refine button: refineSQL(message.id) up to its
\* first fetch
RefineSQL ==
    /\ page \in RefinePages
    /\ refines < MaxRefines
    /\ \E i \in DOMAIN messages :
        /\ RefineShown(page, messages[i])
        /\ refiningSQL # messages[i].id
        /\ Find(messages, messages[i].id) # 0
        /\ CanRefine(page, messages[Find(messages, messages[i].id)])
        /\ refining' = Append(refining, [id |-> messages[i].id, pc |-> "refine"])
        /\ refiningSQL' = messages[i].id
    /\ refines' = refines + 1
    /\ UNCHANGED <<form, loading>>
    /\ UNCHANGED <<page, messages, pageError, now, sendPc, sendId, sendResult,
                   turns, turnLog, failed, charting, generatingChart, charts,
                   clears>>
    /\ UNCHANGED notPageVars

\* what the awaited fetch of a refineSQL call can come back with
RefineAnswers(pc) ==
    CASE pc = "refine" -> Answers("generate")
      [] pc = "execute" -> Answers("execute")
      [] pc = "evaluate" -> Answers("evaluate")

\* the fields refineSQL sets for the answer
RefinePatch(pc, a) ==
    CASE pc = "refine" /\ a.outcome = "ok" -> [refinedSQL |-> "sql"]
      [] pc = "execute" /\ a.outcome = "ok" -> [refinedResult |-> "rows"]
      [] pc = "execute" /\ a.outcome = "error" -> [refinedResult |-> "empty"]
      [] pc = "evaluate" /\ a.outcome = "ok" -> [refinedEvaluation |-> <<a.score>>]
      [] OTHER -> NoPatch

\* mutant: the refined SQL is evaluated whatever its execution returned
RefineNextAlwaysEvaluates(pc, a) ==
    CASE pc = "refine" /\ a.outcome = "ok" -> "execute"
      [] pc = "execute" /\ a.outcome \in {"ok", "error"} -> "evaluate"
      [] OTHER -> "done"

\* the fetch refineSQL issues after the answer, "done" when it reaches finally
RefineNext(pc, a) ==
    CASE pc = "refine" /\ a.outcome = "ok" -> "execute"
      [] pc = "execute" /\ a.outcome = "ok" -> "evaluate"
      [] OTHER -> "done"

\* the awaited fetch of a refineSQL call settles
RefineReturns ==
    /\ \E k \in DOMAIN refining : \E a \in RefineAnswers(refining[k].pc) :
        LET r == refining[k]
            next == RefineNext(r.pc, a)
        IN  /\ messages' = SetMessages(messages, r.id, RefinePatch(r.pc, a))
            /\ failed' = IF Fails(a)
                         THEN failed \cup {[id |-> r.id, call |-> "refine",
                                            step |-> r.pc]}
                         ELSE failed
            /\ IF next = "done"
               THEN /\ refining' = Without(refining, k)
                    /\ refiningSQL' = NoId
               ELSE /\ refining' = [refining EXCEPT ![k].pc = next]
                    /\ UNCHANGED refiningSQL
    /\ UNCHANGED <<form, loading>>
    /\ UNCHANGED <<page, pageError, now, sendPc, sendId, sendResult, turns,
                   turnLog, refines, charting, generatingChart, charts, clears>>
    /\ UNCHANGED notPageVars

\* a click on an enabled Generate Chart button of a DashboardCreator message
GenerateChart ==
    /\ page = "DashboardCreator"
    /\ charts < MaxCharts
    /\ \E i \in DOMAIN messages, useRefined \in BOOLEAN :
        /\ ChartShown(messages[i], useRefined)
        /\ generatingChart # messages[i].id
        /\ messages[i].userQuestion # Null
        /\ charting' = Append(charting, [id |-> messages[i].id,
                                         useRefined |-> useRefined])
        /\ generatingChart' = messages[i].id
    /\ charts' = charts + 1
    /\ UNCHANGED <<form, loading>>
    /\ UNCHANGED <<page, messages, pageError, now, sendPc, sendId, sendResult,
                   turns, turnLog, failed, refining, refiningSQL, refines,
                   clears>>
    /\ UNCHANGED notPageVars

\* the generate-chart-config fetch of such a call settles
ChartReturns ==
    /\ \E k \in DOMAIN charting, a \in Answers("chart") :
        LET c == charting[k]
        IN  /\ messages' =
                 SetMessages(messages, c.id,
                     IF a.outcome # "ok" THEN NoPatch
                     ELSE IF c.useRefined THEN [refinedChartConfig |-> "config"]
                     ELSE [chartConfig |-> "config"])
            /\ failed' = IF Fails(a)
                         THEN failed \cup {[id |-> c.id, call |-> "chart",
                                            step |-> "chart"]}
                         ELSE failed
            /\ charting' = Without(charting, k)
    /\ generatingChart' = NoId
    /\ UNCHANGED <<form, loading>>
    /\ UNCHANGED <<page, pageError, now, sendPc, sendId, sendResult, turns,
                   turnLog, refining, refiningSQL, refines, charts, clears>>
    /\ UNCHANGED notPageVars

NextPage ==
    \/ SendMessage
    \/ Submit
    \/ StepReturns
    \/ ClearConversation
    \/ RefineSQL
    \/ RefineReturns
    \/ GenerateChart
    \/ ChartReturns

SpecPage == InitPage /\ [][NextPage]_vars

\* every fetch eventually resolves or rejects
SpecPageFair == SpecPage /\ WF_vars(StepReturns)

(***************************************************************************)
(* The column fetches of a turn (DashboardCreator and JoinTables): one     *)
(* fetch of /api/columns per relevant table, joined by Promise.all         *)
(***************************************************************************)
MaxTables == 3

ColumnPages == {"DashboardCreator", "JoinTables"}

\* the names identify-relevant-tables may have answered
TableNames == {"orders", "users"}

RECURSIVE TableListsOf(_)
TableListsOf(n) ==
    IF n = 0 THEN {<<>>}
    ELSE LET shorter == TableListsOf(n - 1)
         IN  shorter \cup {Append(l, t) : l \in shorter, t \in TableNames}

\* what one fetch of /api/columns can come back with: a body with columns,
\* a body without the columns key, a non-OK response or a rejected fetch
ColumnAnswers == {"columns", "absent", "failed"}

Pending == [state |-> "pending", value |-> Null]

Rejected == [state |-> "rejected", value |-> Null]

\* return { table: tableName, columns: data.columns || [] }
Fulfilled(tableName, answer) ==
    [state |-> "fulfilled",
     value |-> [table |-> tableName,
                columns |-> IF answer = "columns"
                            THEN <<[column |-> "id", of |-> tableName]>>
                            ELSE <<>>]]

\* mutant: the values in the order in which the promises settled
PromiseAllBySettling(promises, order) ==
    [k \in DOMAIN promises |-> promises[order[k]].value]

\* the value Promise.all resolves with: the values in the order of the
\* promises that were passed in
PromiseAll(promises, order) ==
    [k \in DOMAIN promises |-> promises[k].value]

InitColumns ==
    /\ SelectIdle
    /\ QuestionsIdle
    /\ ApiIdle
    /\ CleanIdle
    /\ DbIdle
    /\ PromptIdle
    /\ DatasetIdle
    /\ NoTurn
    /\ page \in ColumnPages
    /\ relevantTables \in TableListsOf(MaxTables)
    /\ columnPromises = <<>>
    /\ settleOrder = <<>>
    /\ tablesWithColumns = <<>>
    /\ columnsError = Null
    /\ columnsPc = "identified"
    /\ requestTables = <<>>
    /\ responseText = <<>>

\* after identify-relevant-tables: the empty list ends the turn, otherwise
\* relevantTables.map issues every fetch before the first await returns
FetchColumns ==
    /\ columnsPc = "identified"
    /\ IF relevantTables = <<>>
       THEN /\ columnsError' = NoRelevantTables
            /\ columnsPc' = "returned"
            /\ UNCHANGED columnPromises
       ELSE /\ columnPromises' = [i \in DOMAIN relevantTables |-> Pending]
            /\ columnsPc' = "columns"
            /\ UNCHANGED columnsError
    /\ UNCHANGED <<relevantTables, settleOrder, tablesWithColumns>>
    /\ UNCHANGED <<requestTables, responseText>>
    /\ UNCHANGED notColumnVars

\* one fetch settles.  The first rejection rejects Promise.all and runs the
\* catch block; the last fulfilment resolves it, the message is updated and
\* generate-joined-sql is requested; a fetch that settles after sendMessage
\* has returned changes nothing.
ColumnFetchSettles ==
    /\ columnsPc \in {"columns", "returned"}
    /\ \E i \in DOMAIN columnPromises : \E answer \in ColumnAnswers :
        LET promises ==
                [columnPromises EXCEPT ![i] =
                    IF answer = "failed" THEN Rejected
                    ELSE Fulfilled(relevantTables[i], answer)]
            order == Append(settleOrder, i)
        IN  /\ columnPromises[i].state = "pending"
            /\ columnPromises' = promises
            /\ settleOrder' = order
            /\ IF columnsPc = "returned"
               THEN UNCHANGED <<tablesWithColumns, columnsError, columnsPc>>
               ELSE IF answer = "failed"
               THEN /\ columnsError' = "Failed to fetch columns for relevant tables"
                    /\ columnsPc' = "returned"
                    /\ UNCHANGED tablesWithColumns
               ELSE IF \A k \in DOMAIN promises : promises[k].state = "fulfilled"
               THEN /\ tablesWithColumns' = PromiseAll(promises, order)
                    /\ columnsPc' = "generate"
                    /\ UNCHANGED columnsError
               ELSE UNCHANGED <<tablesWithColumns, columnsError, columnsPc>>
    /\ UNCHANGED <<relevantTables, requestTables, responseText>>
    /\ UNCHANGED notColumnVars

NextColumns == FetchColumns \/ ColumnFetchSettles

SpecColumns == InitColumns /\ [][NextColumns]_vars

(***************************************************************************)
(* Identifying the relevant tables (identifyTablesLogic and the page's     *)
(* reading of its answer)                                                  *)
(***************************************************************************)
MaxTokens == 5

\* the pieces an LLM answer is made of: text that is not JSON, the
\* punctuation of a JSON array, and string literals
Tokens == {"prose", "[", "]", ",", "orders", "ghost"}

StringLiterals == {"orders", "ghost"}

RECURSIVE TokenTextsOf(_)
TokenTextsOf(n) ==
    IF n = 0 THEN {<<>>}
    ELSE LET shorter == TokenTextsOf(n - 1)
         IN  shorter \cup {Append(t, k) : t \in shorter, k \in Tokens}

\* tables.map(t => t.name) of the page's request
RequestTableLists == {<<"orders", "users">>, <<"users">>}

Indices(tokens, k) == {i \in DOMAIN tokens : tokens[i] = k}

Least(S) == CHOOSE i \in S : \A j \in S : i <= j

Greatest(S) == CHOOSE i \in S : \A j \in S : i >= j

\* responseText.match(/\[[\s\S]*\]/): from the first opening bracket to the
\* last closing bracket after it, <<>> for null
JsonMatch(text) ==
    IF Indices(text, "[") = {} THEN <<>>
    ELSE LET first == Least(Indices(text, "["))
             closing == {i \in Indices(text, "]") : i > first}
         IN  IF closing = {} THEN <<>>
             ELSE SubSeq(text, first, Greatest(closing))

SyntaxError == [ok |-> FALSE, items |-> <<>>, rest |-> <<>>]

RECURSIVE ParseValue(_)
RECURSIVE ParseItems(_)
RECURSIVE ParseArrayBody(_)

\* one JSON value: a string literal, or an array (which no table name equals)
ParseValue(tokens) ==
    IF tokens = <<>> THEN SyntaxError
    ELSE IF Head(tokens) \in StringLiterals
    THEN [ok |-> TRUE, items |-> <<Head(tokens)>>, rest |-> Tail(tokens)]
    ELSE IF Head(tokens) = "["
    THEN LET inner == ParseArrayBody(Tail(tokens))
         IN  [ok |-> inner.ok, items |-> <<"array">>, rest |-> inner.rest]
    ELSE SyntaxError

\* the elements of an array, up to and including its closing bracket
ParseItems(tokens) ==
    LET v == ParseValue(tokens)
    IN  IF ~v.ok \/ v.rest = <<>> THEN SyntaxError
        ELSE IF Head(v.rest) = "]"
        THEN [ok |-> TRUE, items |-> v.items, rest |-> Tail(v.rest)]
        ELSE IF Head(v.rest) = ","
        THEN LET more == ParseItems(Tail(v.rest))
             IN  IF more.ok
                 THEN [ok |-> TRUE, items |-> v.items \o more.items,
                       rest |-> more.rest]
                 ELSE SyntaxError
        ELSE SyntaxError

\* what follows an opening bracket
ParseArrayBody(tokens) ==
    IF tokens = <<>> THEN SyntaxError
    ELSE IF Head(tokens) = "]"
    THEN [ok |-> TRUE, items |-> <<>>, rest |-> Tail(tokens)]
    ELSE ParseItems(tokens)

\* JSON.parse of a text that begins with an opening bracket; ok is FALSE
\* where it throws
JsonParse(tokens) ==
    IF tokens = <<>> \/ Head(tokens) # "[" THEN SyntaxError
    ELSE LET body == ParseArrayBody(Tail(tokens))
         IN  IF body.ok /\ body.rest = <<>> THEN body ELSE SyntaxError

\* the try block: the matched text parsed, [] without a match and [] from
\* the catch block
ParsedTables(text) ==
    IF JsonMatch(text) = <<>> THEN <<>>
    ELSE JsonParse(JsonMatch(text)).items

\* mutant: the parsed list is returned as it is
ValidTablesUnfiltered(parsed, tables) == parsed

\* relevantTables.filter(table => tables.includes(table))
ValidTables(parsed, tables) ==
    SelectSeq(parsed, LAMBDA table : \E i \in DOMAIN tables : tables[i] = table)

identifyTablesLogic(text, tables) == ValidTables(ParsedTables(text), tables)

InitIdentify ==
    /\ SelectIdle
    /\ QuestionsIdle
    /\ ApiIdle
    /\ CleanIdle
    /\ DbIdle
    /\ PromptIdle
    /\ DatasetIdle
    /\ NoTurn
    /\ page \in ColumnPages
    /\ requestTables \in RequestTableLists
    /\ responseText \in TokenTextsOf(MaxTokens)
    /\ relevantTables = <<>>
    /\ columnPromises = <<>>
    /\ settleOrder = <<>>
    /\ tablesWithColumns = <<>>
    /\ columnsError = Null
    /\ columnsPc = "identify"

\* the response of identify-relevant-tables arrives:
\* relevantTables = data.relevantTables || []
IdentifyReturns ==
    /\ columnsPc = "identify"
    /\ relevantTables' = identifyTablesLogic(responseText, requestTables)
    /\ columnsPc' = "identified"
    /\ UNCHANGED <<columnPromises, settleOrder, tablesWithColumns, columnsError,
                   requestTables, responseText>>
    /\ UNCHANGED notColumnVars

NextIdentify == IdentifyReturns \/ FetchColumns

SpecIdentify == InitIdentify /\ [][NextIdentify]_vars

(***************************************************************************)
(* The handlers that query Postgres, with the text and the parameters of   *)
(* their client.query call and a database that executes them.  A string    *)
(* is a sequence of SQL tokens: the name orders is <<"orders">>.           *)
(* DEMO_POSTGRES_DATABASE_URL is set and client.connect() succeeds; the    *)
(* other exits of these handlers are in SpecApi.                           *)
(***************************************************************************)
Users == {"A", "B"}

\* a row of information_schema.columns; references names the table a
\* foreign key on the column points to
Column(schema, table, column, position, references) ==
    [table_schema |-> schema, table_name |-> table, column_name |-> column,
     ordinal_position |-> position, references |-> references]

\* public.users(id, email) and public.orders(id, user_id -> users, total)
DemoDatabase ==
    {Column("public", "users", "id", 1, "none"),
     Column("public", "users", "email", 2, "none"),
     Column("public", "orders", "id", 1, "none"),
     Column("public", "orders", "user_id", 2, "users"),
     Column("public", "orders", "total", 3, "none")}

TableExists(db, schema, table) ==
    \E r \in db : r.table_schema = schema /\ r.table_name = table

Referenced(db, table) ==
    \E r \in db : r.references = table /\ r.table_name # table

DropTable(db, schema, table) ==
    {r \in db : ~(r.table_schema = schema /\ r.table_name = table)}

\* the text up to a line comment
RECURSIVE BeforeComment(_)
BeforeComment(text) ==
    IF text = <<>> \/ Head(text) = "--" THEN <<>>
    ELSE <<Head(text)>> \o BeforeComment(Tail(text))

\* the statements of a query text: the non-empty runs of tokens between
\* semicolons
RECURSIVE Statements(_)
Statements(text) ==
    IF text = <<>> THEN <<>>
    ELSE LET k == IF \E i \in DOMAIN text : text[i] = ";"
                  THEN CHOOSE i \in DOMAIN text :
                          text[i] = ";" /\ \A j \in 1..(i - 1) : text[j] # ";"
                  ELSE Len(text) + 1
         IN  (IF k > 1 THEN <<SubSeq(text, 1, k - 1)>> ELSE <<>>)
                \o Statements(SubSeq(text, k + 1, Len(text)))

\* Postgres runs one statement: a table scan, or DROP TABLE of a table no
\* other table references; anything else is an error
RunStatement(db, st) ==
    IF /\ Len(st) \in {5, 6}
       /\ st[1] = "SELECT *" /\ st[2] = "FROM" /\ st[4] = "."
       /\ (Len(st) = 6 => st[6] = "LIMIT 10")
       /\ TableExists(db, st[3], st[5])
    THEN [ok |-> TRUE, db |-> db, rows |-> <<[scan |-> st[5]]>>]
    ELSE IF /\ Len(st) = 4
            /\ st[1] = "DROP TABLE" /\ st[3] = "."
            /\ TableExists(db, st[2], st[4])
            /\ ~Referenced(db, st[4])
    THEN [ok |-> TRUE, db |-> DropTable(db, st[2], st[4]), rows |-> <<>>]
    ELSE [ok |-> FALSE, db |-> db, rows |-> <<>>]

RECURSIVE RunStatements(_, _)
RunStatements(db, sts) ==
    IF sts = <<>> THEN [ok |-> TRUE, db |-> db, results |-> <<>>]
    ELSE LET first == RunStatement(db, Head(sts))
         IN  IF ~first.ok THEN [ok |-> FALSE, db |-> db, results |-> <<>>]
             ELSE LET rest == RunStatements(first.db, Tail(sts))
                  IN  [ok |-> rest.ok, db |-> rest.db,
                       results |-> <<first.rows>> \o rest.results]

\* client.query(text) without parameters: the simple query protocol runs
\* every statement of the text in one implicit transaction, so an error
\* rolls all of them back
SimpleQuery(db, text) ==
    LET run == RunStatements(db, Statements(BeforeComment(text)))
    IN  IF run.ok
        THEN [error |-> Null, db |-> run.db, results |-> run.results]
        ELSE [error |-> "relation does not exist", db |-> db, results |-> <<>>]

\* the query texts of the catalog handlers
SchemataText == <<"SELECT schema_name FROM information_schema.schemata">>
TablesText ==
    <<"SELECT table_name, table_type FROM information_schema.tables WHERE table_schema = $1">>
ColumnsText ==
    <<"SELECT column_name FROM information_schema.columns WHERE table_schema = $1 AND table_name = $2">>
ForeignKeysText ==
    <<"SELECT from_table, to_table FROM information_schema.table_constraints WHERE table_schema = $1">>

\* ORDER BY schema_name / table_name over the names of the demo database
NamesInOrder == <<"orders", "public", "users">>

OrderedNames(names) == SelectSeq(NamesInOrder, LAMBDA n : n \in names)

\* ORDER BY ordinal_position
RECURSIVE OrderByOrdinalPosition(_)
OrderByOrdinalPosition(rows) ==
    IF rows = {} THEN <<>>
    ELSE LET first == CHOOSE r \in rows :
                        \A q \in rows : r.ordinal_position <= q.ordinal_position
         IN  <<first>> \o OrderByOrdinalPosition(rows \ {first})

\* client.query(text, params): one statement, the parameters are compared
\* as values with the catalog's names
CatalogQuery(db, text, params) ==
    CASE text = SchemataText ->
            OrderedNames({r.table_schema : r \in db})
      [] text = TablesText ->
            OrderedNames({r.table_name : r \in {q \in db : <<q.table_schema>> = params[1]}})
      [] text = ColumnsText ->
            OrderByOrdinalPosition({r \in db : /\ <<r.table_schema>> = params[1]
                                              /\ <<r.table_name>> = params[2]})
      [] text = ForeignKeysText ->
            OrderByOrdinalPosition({r \in db : /\ <<r.table_schema>> = params[1]
                                              /\ r.references # "none"})

\* the strings a request body may carry
EnvInputs == {<<>>, <<"demo">>}
SchemaInputs == {<<>>, <<"public">>, <<"sales">>}
DropOrders == <<"DROP TABLE", "public", ".", "orders">>
TableInputs ==
    {<<>>, <<"orders">>, <<"users">>, <<"orders", ";">> \o DropOrders \o <<";", "--">>}
SqlInputs ==
    {<<>>,
     <<"SELECT *", "FROM", "public", ".", "orders">>,
     <<"SELECT *", "FROM", "public", ".", "users", ";">>,
     DropOrders,
     <<"DROP TABLE", "public", ".", "users">>,
     <<"SELECT *", "FROM", "public", ".", "users", ";">> \o DropOrders}

DbRequest(user, endpoint, env, schema, table, sql) ==
    [user |-> user, endpoint |-> endpoint, env |-> env, schema |-> schema,
     table |-> table, sql |-> sql]

DbRequests ==
    UNION { {DbRequest(u, "schemas", e, <<>>, <<>>, <<>>) : e \in EnvInputs}
            \cup {DbRequest(u, ep, e, sc, <<>>, <<>>) :
                    ep \in {"tables", "foreign-keys"}, e \in EnvInputs,
                    sc \in SchemaInputs}
            \cup {DbRequest(u, ep, e, sc, t, <<>>) :
                    ep \in {"columns", "sample-data"}, e \in EnvInputs,
                    sc \in SchemaInputs, t \in TableInputs}
            \cup {DbRequest(u, "execute-sql", e, <<>>, <<>>, q) :
                    e \in EnvInputs, q \in SqlInputs} : u \in Users }

NoCall == [text |-> <<>>, params |-> <<>>]

DbResponse(status, error, rows) == [status |-> status, error |-> error, rows |-> rows]

\* what a handler run does: its client.query call, its response and the
\* database it leaves
DbOutcome(call, resp, db) == [call |-> call, resp |-> resp, db |-> db]

\* result.rows.map((row) => ...): what each handler returns for a row
Describe(endpoint, row) ==
    CASE endpoint = "schemas" -> row
      [] endpoint = "tables" -> [name |-> row]
      [] endpoint = "columns" -> [name |-> row.column_name]
      [] endpoint = "foreign-keys" ->
            [fromTable |-> row.table_name, fromColumn |-> row.column_name,
             toTable |-> row.references]

\* a handler whose query has a fixed text and passes the inputs as parameters
CatalogHandler(req, db, required, missingMsg, text, params) ==
    IF \E input \in required : input = <<>>
    THEN DbOutcome(NoCall, DbResponse(400, missingMsg, <<>>), db)
    ELSE LET rows == CatalogQuery(db, text, params)
         IN  DbOutcome([text |-> text, params |-> params],
                       DbResponse(200, Null,
                                  [i \in DOMAIN rows |-> Describe(req.endpoint, rows[i])]),
                       db)

\* schemas: no parameter
Schemas(req, db) ==
    CatalogHandler(req, db, {req.env}, "Environment is required",
                   SchemataText, <<>>)

\* tables: [schema]
Tables(req, db) ==
    CatalogHandler(req, db, {req.env, req.schema},
                   "Environment and schema are required",
                   TablesText, <<req.schema>>)

\* mutant: the parameters in the other order
ColumnsParamsSwapped(req) == <<req.table, req.schema>>

\* columns: [schema, table]
ColumnsParams(req) == <<req.schema, req.table>>

Columns(req, db) ==
    CatalogHandler(req, db, {req.env, req.schema, req.table},
                   "Environment, schema, and table are required",
                   ColumnsText, ColumnsParams(req))

\* foreign-keys: [schema]
ForeignKeys(req, db) ==
    CatalogHandler(req, db, {req.env, req.schema},
                   "Environment and schema are required",
                   ForeignKeysText, <<req.schema>>)

\* sample-data: SELECT * FROM ${schema}.${table} LIMIT 10; without
\* parameters.  A text of several statements makes the driver return an
\* array of results, on which result.fields.map throws.
SampleData(req, db) ==
    IF req.env = <<>> \/ req.schema = <<>> \/ req.table = <<>>
    THEN DbOutcome(NoCall,
                   DbResponse(400, "Environment, schema, and table are required", <<>>),
                   db)
    ELSE LET text == <<"SELECT *", "FROM">> \o req.schema \o <<".">> \o req.table
                        \o <<"LIMIT 10", ";">>
             q == SimpleQuery(db, text)
             call == [text |-> text, params |-> <<>>]
         IN  IF q.error # Null \/ Len(q.results) # 1
             THEN DbOutcome(call, DbResponse(500, "Failed to fetch sample data", <<>>),
                            q.db)
             ELSE DbOutcome(call, DbResponse(200, Null, q.results[1]), q.db)

\* execute-sql: client.query(sql); a driver error and the TypeError on an
\* array of results are both caught by the inner try
ExecuteSqlText(req, db) ==
    IF req.env = <<>> \/ req.sql = <<>>
    THEN DbOutcome(NoCall, DbResponse(400, "Environment and SQL are required", <<>>), db)
    ELSE LET q == SimpleQuery(db, req.sql)
             call == [text |-> req.sql, params |-> <<>>]
         IN  IF q.error # Null
             THEN DbOutcome(call, DbResponse(200, q.error, <<>>), q.db)
             ELSE IF Len(q.results) # 1
             THEN DbOutcome(call,
                            DbResponse(200, "Cannot read properties of undefined", <<>>),
                            q.db)
             ELSE DbOutcome(call, DbResponse(200, Null, q.results[1]), q.db)

\* the outcome of the endpoint's handler on a database
HandlerOn(req, db) ==
    CASE req.endpoint = "schemas" -> Schemas(req, db)
      [] req.endpoint = "tables" -> Tables(req, db)
      [] req.endpoint = "columns" -> Columns(req, db)
      [] req.endpoint = "foreign-keys" -> ForeignKeys(req, db)
      [] req.endpoint = "sample-data" -> SampleData(req, db)
      [] req.endpoint = "execute-sql" -> ExecuteSqlText(req, db)

InitDb ==
    /\ SelectIdle
    /\ QuestionsIdle
    /\ ApiIdle
    /\ CleanIdle
    /\ PageIdle
    /\ ColumnsIdle
    /\ PromptIdle
    /\ DatasetIdle
    /\ database = DemoDatabase
    /\ dbPc = "idle"
    /\ dbReq = [user |-> "none", endpoint |-> "none"]
    /\ dbCall = NoCall
    /\ dbResp = DbResponse(0, Null, <<>>)
    /\ dbWriters = {}

\* a user's request arrives
DbReceive ==
    /\ dbPc \in {"idle", "done"}
    /\ \E r \in DbRequests : dbReq' = r
    /\ dbPc' = "pending"
    /\ dbCall' = NoCall
    /\ dbResp' = DbResponse(0, Null, <<>>)
    /\ UNCHANGED <<database, dbWriters>>
    /\ UNCHANGED notDbVars

\* the handler of the endpoint runs to its return
DbReturn(endpoint, o) ==
    /\ dbPc = "pending"
    /\ dbReq.endpoint = endpoint
    /\ dbPc' = "done"
    /\ dbCall' = o.call
    /\ dbResp' = o.resp
    /\ database' = o.db
    /\ dbWriters' = IF o.db # database THEN dbWriters \cup {dbReq.user} ELSE dbWriters
    /\ UNCHANGED dbReq
    /\ UNCHANGED notDbVars

QuerySchemas == DbReturn("schemas", Schemas(dbReq, database))

QueryTables == DbReturn("tables", Tables(dbReq, database))

QueryColumns == DbReturn("columns", Columns(dbReq, database))

QueryForeignKeys == DbReturn("foreign-keys", ForeignKeys(dbReq, database))

QuerySampleData == DbReturn("sample-data", SampleData(dbReq, database))

QueryExecuteSql == DbReturn("execute-sql", ExecuteSqlText(dbReq, database))

NextDb ==
    \/ DbReceive
    \/ QuerySchemas
    \/ QueryTables
    \/ QueryColumns
    \/ QueryForeignKeys
    \/ QuerySampleData
    \/ QueryExecuteSql

SpecDb == InitDb /\ [][NextDb]_vars

(***************************************************************************)
(* The refinement prompt: the body refineSQL sends and the execution       *)
(* context refineSQLLogic builds from it.  An optional key is a sequence   *)
(* that is empty (absent) or holds the value.                              *)
(***************************************************************************)
MaxRows == 4

\* the rows 1..n of a result
Rows(n) == [i \in 1..n |-> i]

\* the first three elements: sampleRows.slice(0, 3)
Slice3(rows) == SubSeq(rows, 1, IF Len(rows) < 3 THEN Len(rows) ELSE 3)

\* the executionResult object a request body carries
ExecutionResult(success, rowCount, sampleRows, columns, error) ==
    [success |-> success, rowCount |-> rowCount, sampleRows |-> sampleRows,
     columns |-> columns, error |-> error]

\* interface QueryResult { columns, rows, rowCount }, what execute-sql
\* returned and the page stored as message.result: no success, sampleRows
\* or error key
QueryResult(n) == ExecutionResult(<<>>, <<n>>, <<>>, <<"id, total">>, <<>>)

\* a message whose SQL executed with n rows, and one whose execution failed
ExecutedMessage(p, n) ==
    [page |-> p, executed |-> TRUE, rowCount |-> n, result |-> <<QueryResult(n)>>,
     error |-> Null]

FailedMessage(p) ==
    [page |-> p, executed |-> FALSE, rowCount |-> 0, result |-> <<>>,
     error |-> "division by zero"]

RefinableMessages ==
    {ExecutedMessage(p, n) : p \in RefinePages, n \in 0..MaxRows}
        \cup {FailedMessage(p) : p \in RefinePages}

\* the executionResult values of the handler's parameter type, as a caller
\* other than the chat pages may send them
TypedExecutionResults ==
    {ExecutionResult(<<s>>, rc, sr, c, e) :
        s \in BOOLEAN, rc \in {<<>>, <<0>>, <<MaxRows>>},
        sr \in {<<>>} \cup {<<Rows(n)>> : n \in {0, MaxRows}},
        c \in {<<>>, <<"id, total">>}, e \in {<<>>, <<"division by zero">>}}

\* JSON.stringify({ ..., executionResult: message.result }): an undefined
\* value drops the key
RefineSQLBody(message) == message.result

NoExecutionContext ==
    [status |-> "none", rowsReturned |-> 0, columns |-> "none", sampleRows |-> <<>>,
     error |-> Null]

\* refineSQLLogic: let executionContext = ""; if (executionResult) { ... }
ExecutionContext(executionResult) ==
    IF executionResult = <<>> THEN NoExecutionContext
    ELSE LET er == executionResult[1]
         IN  IF er.success = <<TRUE>>
             THEN [status |-> "SUCCESS",
                   rowsReturned |-> IF er.rowCount = <<>> THEN 0 ELSE er.rowCount[1],
                   columns |-> IF er.columns = <<>> THEN "N/A" ELSE er.columns[1],
                   sampleRows |-> IF er.sampleRows = <<>> THEN <<>>
                                  ELSE Slice3(er.sampleRows[1]),
                   error |-> Null]
             ELSE [status |-> "FAILED", rowsReturned |-> 0, columns |-> "none",
                   sampleRows |-> <<>>,
                   error |-> IF er.error = <<>> THEN "Unknown error" ELSE er.error[1]]

InitPrompt ==
    /\ SelectIdle
    /\ QuestionsIdle
    /\ ApiIdle
    /\ CleanIdle
    /\ PageIdle
    /\ ColumnsIdle
    /\ DbIdle
    /\ DatasetIdle
    /\ promptPc = "message"
    /\ promptMessage \in RefinableMessages \cup {NoMessage}
    /\ promptBody = <<>>
    /\ promptContext = "none"

\* refineSQL(messageId) of a chat page posts the request
RefineSQLRequest ==
    /\ promptPc = "message"
    /\ promptMessage # NoMessage
    /\ promptBody' = RefineSQLBody(promptMessage)
    /\ promptPc' = "requested"
    /\ UNCHANGED <<promptMessage, promptContext>>
    /\ UNCHANGED notPromptVars

\* another caller posts a request with a typed executionResult
TypedRequest ==
    /\ promptPc = "message"
    /\ promptMessage = NoMessage
    /\ \E er \in TypedExecutionResults : promptBody' = <<er>>
    /\ promptPc' = "requested"
    /\ UNCHANGED <<promptMessage, promptContext>>
    /\ UNCHANGED notPromptVars

\* the refine-sql handler builds the prompt
RefineSQLLogic ==
    /\ promptPc = "requested"
    /\ promptContext' = ExecutionContext(promptBody)
    /\ promptPc' = "prompted"
    /\ UNCHANGED <<promptMessage, promptBody>>
    /\ UNCHANGED notPromptVars

NextPrompt == RefineSQLRequest \/ TypedRequest \/ RefineSQLLogic

SpecPrompt == InitPrompt /\ [][NextPrompt]_vars

(***************************************************************************)
(* The dataset calls of evaluate-sql-generation and evaluate-langsmith:    *)
(* listDatasets, and in the catch block createDataset and createExamples.  *)
(* All POSTs name the same dataset; each await is a point where another    *)
(* POST can run.  LangSmith refuses a second dataset of the same name.     *)
(***************************************************************************)
MaxPosts == 3

Posts == 1..MaxPosts

\* what a LangSmith call can come back with
LangsmithAnswers == {"ok", "throw"}

\* a dataset: the request that created it and the createExamples calls that
\* reached it
NewDataset(creator) == [creator |-> creator, exampleSets |-> <<>>]

InitDataset ==
    /\ SelectIdle
    /\ QuestionsIdle
    /\ ApiIdle
    /\ CleanIdle
    /\ PageIdle
    /\ ColumnsIdle
    /\ DbIdle
    /\ PromptIdle
    /\ datasets = <<>>
    /\ evalPc = [r \in Posts |-> "idle"]

\* POST arrives: request.json() and new Client(...)
EvalPost(r) ==
    /\ evalPc[r] = "idle"
    /\ evalPc' = [evalPc EXCEPT ![r] = "listDatasets"]
    /\ UNCHANGED datasets
    /\ UNCHANGED notDatasetVars

\* for await (const ds of client.listDatasets({ datasetName })): a dataset
\* found is used; none found, or a rejected call, enters the catch block
ListDatasets(r) ==
    /\ evalPc[r] = "listDatasets"
    /\ \E answer \in LangsmithAnswers :
        evalPc' = [evalPc EXCEPT ![r] =
                      IF answer = "ok" /\ datasets # <<>> THEN "evaluate"
                      ELSE "createDataset"]
    /\ UNCHANGED datasets
    /\ UNCHANGED notDatasetVars

\* client.createDataset(datasetName, ...): a rejection (the service failed
\* or the name is in use) reaches the handler's outer catch
CreateDatasetCall(r, answer) ==
    IF answer = "ok" /\ datasets = <<>>
    THEN /\ datasets' = Append(datasets, NewDataset(r))
         /\ evalPc' = [evalPc EXCEPT ![r] = "createExamples"]
    ELSE /\ evalPc' = [evalPc EXCEPT ![r] = "failed"]
         /\ UNCHANGED datasets

CreateDataset(r) ==
    /\ evalPc[r] = "createDataset"
    /\ \E answer \in LangsmithAnswers : CreateDatasetCall(r, answer)
    /\ UNCHANGED notDatasetVars

\* client.createExamples({ ..., datasetId: dataset.id })
CreateExamples(r) ==
    /\ evalPc[r] = "createExamples"
    /\ \E answer \in LangsmithAnswers, d \in DOMAIN datasets :
        /\ datasets[d].creator = r
        /\ IF answer = "ok"
           THEN /\ datasets' = [datasets EXCEPT ![d].exampleSets = Append(@, r)]
                /\ evalPc' = [evalPc EXCEPT ![r] = "evaluate"]
           ELSE /\ evalPc' = [evalPc EXCEPT ![r] = "failed"]
                /\ UNCHANGED datasets
    /\ UNCHANGED notDatasetVars

\* evaluate(...) over the dataset, then the 200 response, or the outer catch
Evaluate(r) ==
    /\ evalPc[r] = "evaluate"
    /\ \E answer \in LangsmithAnswers :
        evalPc' = [evalPc EXCEPT ![r] = IF answer = "ok" THEN "succeeded" ELSE "failed"]
    /\ UNCHANGED datasets
    /\ UNCHANGED notDatasetVars

NextDataset ==
    \E r \in Posts :
        \/ EvalPost(r)
        \/ ListDatasets(r)
        \/ CreateDataset(r)
        \/ CreateExamples(r)
        \/ Evaluate(r)

SpecDataset == InitDataset /\ [][NextDataset]_vars

(***************************************************************************)
(* generate-questions: the list of questions taken from the completion     *)
(***************************************************************************)
MaxItems == 12

\* .slice(0, 10)
QuestionLimit == 10

Letters == <<"a", "b", "c", "d", "e", "f", "g", "h", "i", "j", "k", "l", "m", "n">>

\* the i-th element of the array the LLM wrote: a question (with a space
\* before it), or something that is not a question
Question(i) == [type |-> "string", text |-> <<" ", "q", Letters[i]>>]

NotQuestions ==
    {[type |-> "string", text |-> <<>>],
     [type |-> "string", text |-> <<" ", "\n">>],
     [type |-> "number", text |-> <<"7">>]}

\* arrays of n elements whose elements at the positions bad are not questions
ItemLists ==
    UNION { { [i \in 1..n |-> IF i \in bad THEN x ELSE Question(i)] :
                bad \in (SUBSET (1..3)) \cup {1..MaxItems}, x \in NotQuestions } :
            n \in 0..MaxItems }

\* the completion text by what JSON.parse makes of it:
\*   "garbage"    not JSON
\*   "null"       the JSON value null
\*   "number"     a JSON number
\*   "array"      the array itself
\*   "questions"  { questions: [...] }
\*   "other"      { <some key>: [...] }, also with questions holding a string
\*   "noarray"    an object without an array value; "{}" for an empty completion
ArrayShapes == {"array", "questions", "other"}

QuestionTexts ==
    {[shape |-> sh, items |-> l] : sh \in ArrayShapes, l \in ItemLists}
        \cup {[shape |-> sh, items |-> <<>>] :
                sh \in {"garbage", "null", "number", "noarray"}}

\* the try block around JSON.parse: ok is FALSE where it throws (JSON.parse
\* itself, or parsed.questions on null)
ParsedQuestions(text) ==
    IF text.shape \in {"garbage", "null"} THEN [ok |-> FALSE, questions |-> <<>>]
    ELSE IF text.shape \in ArrayShapes THEN [ok |-> TRUE, questions |-> text.items]
    ELSE [ok |-> TRUE, questions |-> <<>>]

\* typeof q === 'string' && q.trim().length > 0
IsQuestion(q) == q.type = "string" /\ Len(Trim(q.text)) > 0

\* mutant: the filtered list without the slice
ValidQuestionsUnlimited(questions) == SelectSeq(questions, IsQuestion)

\* questions.filter(...).slice(0, 10)
ValidQuestions(questions) ==
    LET kept == SelectSeq(questions, IsQuestion)
    IN  SubSeq(kept, 1, IF Len(kept) < QuestionLimit THEN Len(kept) ELSE QuestionLimit)

\* from the completion to the response
QuestionsResponse(text) ==
    LET parsed == ParsedQuestions(text)
        questions == ValidQuestions(parsed.questions)
    IN  IF ~parsed.ok \/ Len(questions) = 0
        THEN [status |-> 500, error |-> "Failed to generate questions",
              questions |-> <<>>]
        ELSE [status |-> 200, error |-> Null, questions |-> questions]

InitQuestions ==
    /\ SelectIdle
    /\ ApiIdle
    /\ CleanIdle
    /\ PageIdle
    /\ ColumnsIdle
    /\ DbIdle
    /\ PromptIdle
    /\ DatasetIdle
    /\ questionsPc = "completed"
    /\ questionsText \in QuestionTexts
    /\ questionsResp = [status |-> 0, error |-> Null, questions |-> <<>>]

\* the handler parses the completion and returns
GenerateQuestionsReturns ==
    /\ questionsPc = "completed"
    /\ questionsResp' = QuestionsResponse(questionsText)
    /\ questionsPc' = "done"
    /\ UNCHANGED questionsText
    /\ UNCHANGED notQuestionsVars

NextQuestions == GenerateQuestionsReturns

SpecQuestions == InitQuestions /\ [][NextQuestions]_vars

(***************************************************************************)
(* The selection effects of QueryGeneration and NaturalLanguageToSQL: the  *)
(* environment is selected and its schemas are loaded; the user picks a    *)
(* schema and a table, and each pick fetches the metadata to display.      *)
(***************************************************************************)
MaxSelections == 4

SchemaNames == {"public", "sales"}

\* the tables endpoint's answer for a schema
TablesOf(s) ==
    IF s = "public" THEN {"users", "orders"} ELSE {"orders", "invoices"}

\* the columns endpoint's answer: [] for a table the schema does not have
ColumnsOf(s, t) == IF t \in TablesOf(s) THEN {<<s, t, "id">>} ELSE {}

\* the sample-data endpoint's answer
SampleOf(s, t) == {<<s, t, "row">>}

Kinds == {"tables", "columns", "sample-data"}

\* a fetch in flight, with the arguments its function was called with
Fetch(kind, s, t, n) == [kind |-> kind, schema |-> s, table |-> t, n |-> n]

\* fetchColumns(env, schema, table) and fetchSampleData(env, schema, table)
TableFetches(s, t, n) ==
    {Fetch("columns", s, t, n), Fetch("sample-data", s, t, n)}

InitSelect ==
    /\ SelectIdle
    /\ QuestionsIdle
    /\ ApiIdle
    /\ CleanIdle
    /\ PageIdle
    /\ ColumnsIdle
    /\ DbIdle
    /\ PromptIdle
    /\ DatasetIdle

\* setSelectedSchema(schema): the second effect calls fetchTables, which
\* resets selectedTable; the third effect runs in the same commit with the
\* table of that render, fetching its columns and sample data under the new
\* schema, and runs again for the reset table, clearing both
SelectSchema ==
    /\ selections < MaxSelections
    /\ \E s \in SchemaNames :
        /\ s # selectedSchema
        /\ selectedSchema' = s
        /\ fetches' = fetches \cup {Fetch("tables", s, "", selections)}
                          \cup (IF selectedTable # ""
                                THEN TableFetches(s, selectedTable, selections)
                                ELSE {})
    /\ selectedTable' = ""
    /\ fetchLoading' = IF selectedTable # "" THEN Kinds
                       ELSE fetchLoading \cup {"tables"}
    /\ fetchError' = IF selectedTable # "" THEN {}
                     ELSE fetchError \ {"tables"}
    /\ columnList' = {}
    /\ sampleData' = {}
    /\ selections' = selections + 1
    /\ UNCHANGED tableList
    /\ UNCHANGED notSelectVars

\* setSelectedTable(table.name) from the rendered tables list: the third
\* effect fetches the columns and the sample data of the table
SelectTable ==
    /\ selections < MaxSelections
    /\ selectedSchema # ""
    /\ "tables" \notin fetchLoading
    /\ "tables" \notin fetchError
    /\ \E t \in tableList :
        /\ t # selectedTable
        /\ selectedTable' = t
        /\ fetches' = fetches \cup TableFetches(selectedSchema, t, selections)
    /\ fetchLoading' = fetchLoading \cup {"columns", "sample-data"}
    /\ fetchError' = fetchError \ {"columns", "sample-data"}
    /\ selections' = selections + 1
    /\ UNCHANGED <<selectedSchema, tableList, columnList, sampleData>>
    /\ UNCHANGED notSelectVars

\* how an introspection fetch can settle; sample-data answers 500 for a
\* table the schema does not have
FetchAnswers(f) ==
    IF f.kind = "sample-data" /\ f.table \notin TablesOf(f.schema)
    THEN {"failed"} ELSE {"ok", "failed"}

\* an introspection fetch settles: the state of its kind is set from the
\* response, or its error text is set; finally resets the loading flag
FetchSettles ==
    /\ \E f \in fetches : \E a \in FetchAnswers(f) :
        /\ fetches' = fetches \ {f}
        /\ fetchLoading' = fetchLoading \ {f.kind}
        /\ IF a = "ok"
           THEN /\ tableList' = IF f.kind = "tables" THEN TablesOf(f.schema)
                                ELSE tableList
                /\ columnList' = IF f.kind = "columns"
                                 THEN ColumnsOf(f.schema, f.table)
                                 ELSE columnList
                /\ sampleData' = IF f.kind = "sample-data"
                                 THEN SampleOf(f.schema, f.table)
                                 ELSE sampleData
                /\ UNCHANGED fetchError
           ELSE /\ fetchError' = fetchError \cup {f.kind}
                /\ UNCHANGED <<tableList, columnList, sampleData>>
    /\ UNCHANGED <<selectedSchema, selectedTable, selections>>
    /\ UNCHANGED notSelectVars

NextSelect ==
    \/ SelectSchema
    \/ SelectTable
    \/ FetchSettles

SpecSelect == InitSelect /\ [][NextSelect]_vars

(***************************************************************************)
(* Properties of the route handlers (checked under SpecApi)                *)
(***************************************************************************)
Done(e) == apiPc = "done" /\ apiReq.endpoint = e

\* a score in [0.0, 1.0]
InUnitInterval(s) == s.kind = "num" /\ 0 <= s.v /\ s.v <= 100

C2_ScoreInUnitInterval ==
    /\ (Done("evaluate-sql-query") /\ apiResp.data.tag = "evaluation") =>
            InUnitInterval(apiResp.data.score)
    /\ apiFeedback.key = "sql_correctness" => InUnitInterval(apiFeedback.score)

\* C8: when a handler has returned, the connection it opened is closed.
C8_ConnectionClosedOnReturn == apiPc = "done" => apiConn # "open"

UnparseableText == apiExt.llm = "ok" /\ apiExt.content = "garbage"

\* C10 as claimed: unparseable LLM text never produces a 5xx from a
\* structured-output handler; the handler answers 200 with defaults.
C10_ParseFailureNever5xx ==
    (apiPc = "done" /\ apiReq.endpoint \in JsonEndpoints /\ UnparseableText) =>
        apiResp.status = 200

\* C10 amended: on unparseable text identify-relevant-tables answers 200 with
\* an empty list and the SQL correctness evaluator returns score 0, while
\* evaluate-sql-query, optimize-erd-layout and generate-questions answer 500
\* with an error.
C10_FallbackOnlyWhereCaught ==
    /\ (Done("identify-relevant-tables") /\ UnparseableText) =>
            /\ apiResp.status = 200
            /\ apiResp.error = Null
            /\ apiResp.data.lists = "empty"
    /\ (apiFeedback.key = "sql_correctness" /\ UnparseableText) =>
            apiFeedback.score = Num(0)
    /\ (apiPc = "done" /\ UnparseableText /\ apiReq.endpoint \in
            {"evaluate-sql-query", "optimize-erd-layout", "generate-questions"}) =>
            apiResp.status = 500 /\ apiResp.error # Null

C10_Witness ==
    /\ Done("identify-relevant-tables")
    /\ UnparseableText
    /\ apiResp.data.lists = "empty"

(***************************************************************************)
(* Properties of the cleanup routines (checked under SpecClean)            *)
(***************************************************************************)
\* already trimmed and without a Markdown fence
IsCleanText(s) == Trim(s) = s /\ ~Contains(s, Fence)

\* C3: for each of the three cleanup routines, cleaning a cleaned text
\* returns it unchanged, and a text that is already trimmed and has no
\* fence is returned unchanged by the first pass.
C3_CleanupIdempotentIdentity ==
    /\ (Len(cleanPasses) >= 1 /\ IsCleanText(cleanInput)) =>
            cleanPasses[1] = cleanInput
    /\ Len(cleanPasses) >= 2 => cleanPasses[2] = cleanPasses[1]

(***************************************************************************)
(* Properties of the pages (checked under SpecPage)                        *)
(***************************************************************************)
Failure(o) == o \in {"error", "failed"}

\* the assistant messages with the given id that are in the conversation
Shown(id) ==
    {i \in DOMAIN messages : messages[i].id = id /\ messages[i].role = "assistant"}

\* C4: on a page with refinement the refine button of an assistant message
\* that has an evaluation is rendered exactly when the score is below 0.9
\* and the message has no refined SQL.
C4_RefineShownIffLowScore ==
    page \in RefinePages =>
        \A i \in DOMAIN messages :
            (messages[i].role = "assistant" /\ messages[i].evaluation # <<>>) =>
                (RefineShown(page, messages[i]) <=>
                    /\ messages[i].evaluation[1] < RefineThreshold
                    /\ messages[i].refinedSQL = Null)

\* C5 as claimed: no request of a turn is issued after a step of that turn
\* has failed.
C5_NoRequestAfterFailure ==
    \A i, j \in DOMAIN turnLog : i < j => ~Failure(turnLog[i].outcome)

\* C5 amended: a request issued after a failed step is either the
\* evaluation request after a failed execution on DashboardCreator,
\* JoinTables or SQLWithEvaluation, a request after a failed evaluation, or
\* the chart request after a failed interpretation on ChartJSGeneration.
C5_HaltExceptOptionalSteps ==
    \A i, j \in DOMAIN turnLog :
        (i < j /\ Failure(turnLog[i].outcome)) =>
            \/ /\ turnLog[i].step = "execute"
               /\ turnLog[j].step = "evaluate"
               /\ page \in RefinePages
            \/ turnLog[i].step = "evaluate"
            \/ /\ turnLog[i].step = "interpret"
               /\ turnLog[j].step = "chart"
               /\ page = "ChartJSGeneration"

C5_Witness ==
    /\ page = "SQLWithEvaluation"
    /\ sendPc = "idle"
    /\ Len(turnLog) = 3
    /\ turnLog[2].step = "execute"
    /\ turnLog[2].outcome = "error"
    /\ turnLog[3].step = "evaluate"

\* C6: a step of sendMessage keeps every message that is already in the
\* conversation, and changes at most the assistant message the call created:
\* the last message, whose id is the call's assistantMessageId.
C6_OnlyOwnMessageChanges ==
    [][(SendMessage \/ StepReturns) =>
        \A i \in DOMAIN messages :
            /\ i \in DOMAIN messages'
            /\ messages'[i] # messages[i] =>
                /\ i = Len(messages)
                /\ messages[i].id = sendId
                /\ messages[i].role = "assistant"]_vars

C6_Witness ==
    /\ Len(messages) = 4
    /\ messages[2].error = "Failed to generate SQL"
    /\ messages[4].sql = "sql"
    /\ messages[4].error = Null

\* the turn's user-visible error value is non-empty
ErrorVisible(id) ==
    IF page \in ChatPages
    THEN \A i \in Shown(id) : messages[i].error # Null
    ELSE pageError # Null

\* C7 as claimed: every failed step has made the error of its turn visible.
C7_EveryFailureSurfaced == \A f \in failed : ErrorVisible(f.id)

SurfacedFailure(f) ==
    /\ f.call = "send"
    /\ \/ f.step \in {"identify", "columns", "generate", "execute"}
       \/ f.step = "chart" /\ page = "ChartJSGeneration"

\* C7 amended: a failed identify, columns, generate or execute step, and a
\* failed chart step of ChartJSGeneration, make the error visible; nothing
\* else does, so failed evaluation, interpretation, refinement and
\* DashboardCreator chart steps leave the error empty (the only other
\* error shown is the notice that no relevant table was identified).
C7_SurfacedExceptOptionalSteps ==
    /\ \A f \in failed : SurfacedFailure(f) => ErrorVisible(f.id)
    /\ \A i \in DOMAIN messages :
            messages[i].error \notin {Null, NoRelevantTables} =>
                \E f \in failed : f.id = messages[i].id /\ SurfacedFailure(f)
    /\ pageError # Null => \E f \in failed : SurfacedFailure(f)

C7_Witness ==
    /\ page = "DashboardCreator"
    /\ \E f \in failed :
        /\ f.call = "refine"
        /\ \E i \in Shown(f.id) :
            messages[i].error = Null /\ messages[i].evaluation = <<65>>
    /\ \E g \in failed :
        /\ g.step = "execute"
        /\ \E i \in Shown(g.id) : messages[i].error = "division by zero"

(***************************************************************************)
(* Properties of the column fetches (checked under SpecColumns)            *)
(***************************************************************************)
\* C11: generate-joined-sql is requested only when every column fetch has
\* been fulfilled; the stored tablesWithColumns then has one entry per
\* element of relevantTables, in that order, holding what the fetch of that
\* table returned; and once a fetch has failed before that, nothing is
\* stored and the turn has ended with the columns error.
C11_AllCompleteBarrier ==
    /\ columnsPc = "generate" =>
            \A i \in DOMAIN columnPromises : columnPromises[i].state = "fulfilled"
    /\ tablesWithColumns # <<>> =>
            /\ columnsPc = "generate"
            /\ DOMAIN tablesWithColumns = DOMAIN relevantTables
            /\ \A i \in DOMAIN relevantTables :
                    /\ tablesWithColumns[i].table = relevantTables[i]
                    /\ tablesWithColumns[i] = columnPromises[i].value
    /\ (\E i \in DOMAIN columnPromises : columnPromises[i].state = "rejected") =>
            /\ tablesWithColumns = <<>>
            /\ columnsPc = "returned"
            /\ columnsError = "Failed to fetch columns for relevant tables"

C11_Witness ==
    /\ columnsPc = "generate"
    /\ relevantTables = <<"orders", "users", "orders">>
    /\ settleOrder = <<2, 3, 1>>
    /\ tablesWithColumns[2].columns = <<[column |-> "id", of |-> "users"]>>

(***************************************************************************)
(* Properties of the handlers that query Postgres (checked under SpecDb)   *)
(***************************************************************************)
\* does a token of the input occur in the query text
InText(input, text) == \E i \in DOMAIN input, j \in DOMAIN text : input[i] = text[j]

\* C12: a call to the schemas, tables, columns, foreign-keys or sample-data
\* endpoint leaves the database as it was, and the text of its query holds
\* nothing of the schema and table inputs.
C12_IntrospectionReadOnly ==
    [][(dbPc = "pending" /\ dbPc' = "done" /\ dbReq.endpoint \in DbEndpoints) =>
        /\ database' = database
        /\ ~InText(dbReq.schema, dbCall'.text)
        /\ ~InText(dbReq.table, dbCall'.text)]_vars

\* the rows of information_schema.columns that the filter selects
ColumnsFilter(db, schema, table) ==
    {r \in db : <<r.table_schema>> = schema /\ <<r.table_name>> = table}

\* C18: a columns response lists one descriptor per row of the filter
\* table_schema = schema and table_name = table, the k-th descriptor being
\* that of the row with the k-th smallest ordinal_position; with no row the
\* list is empty.
C18_ColumnsMatchCatalog ==
    (dbPc = "done" /\ dbReq.endpoint = "columns" /\ dbResp.status = 200) =>
        LET rows == ColumnsFilter(database, dbReq.schema, dbReq.table)
        IN  /\ Len(dbResp.rows) = Cardinality(rows)
            /\ \A k \in DOMAIN dbResp.rows :
                    \E r \in rows :
                        /\ dbResp.rows[k].name = r.column_name
                        /\ Cardinality({q \in rows :
                              q.ordinal_position < r.ordinal_position}) = k - 1

C18_Witness ==
    /\ dbPc = "done"
    /\ dbReq.endpoint = "columns"
    /\ dbReq.table = <<"orders">>
    /\ dbResp.rows = <<[name |-> "id"], [name |-> "user_id"], [name |-> "total"]>>

\* C15: the response to a user's request is the one the same request gets
\* from the database as that user's own requests left it: requests of other
\* users do not change it.
C15_UsersIsolated ==
    (dbPc = "done" /\ dbReq.user \notin dbWriters) =>
        dbResp = HandlerOn(dbReq, DemoDatabase).resp

(***************************************************************************)
(* Properties of the refinement prompt (checked under SpecPrompt)          *)
(***************************************************************************)
\* C13: the prompt built for a chat message whose SQL executed describes the
\* execution as SUCCESS with the result's row count and columns and at most
\* 3 sample rows, and the prompt built for a message whose execution failed
\* describes it as FAILED with the execution error.
C13_PromptReflectsExecution ==
    (promptPc = "prompted" /\ promptMessage # NoMessage) =>
        IF promptMessage.executed
        THEN /\ promptContext.status = "SUCCESS"
             /\ promptContext.rowsReturned = promptMessage.rowCount
             /\ promptContext.columns = "id, total"
             /\ Len(promptContext.sampleRows) <= 3
        ELSE /\ promptContext.status = "FAILED"
             /\ promptContext.error = promptMessage.error

(***************************************************************************)
(* Properties of the evaluation request (checked under SpecPage)           *)
(***************************************************************************)
\* C14: on a chat page that evaluates SQL, every evaluate-sql-query request
\* of a turn follows a settled execute-sql request of that turn, its
\* executionSuccess flag is true exactly when that execution succeeded, and
\* it carries the result of a successful and the error of a failed execution.
C14_EvaluateAfterExecute ==
    \A j \in DOMAIN turnLog :
        turnLog[j].step = "evaluate" =>
            \E i \in 1..(j - 1) :
                /\ turnLog[i].step = "execute"
                /\ turnLog[i].outcome # "pending"
                /\ turnLog[j].executionSuccess = "true" <=> turnLog[i].outcome = "ok"
                /\ turnLog[j].attached =
                        (IF turnLog[i].outcome = "ok" THEN "result" ELSE "error")

(***************************************************************************)
(* Properties of the dataset calls (checked under SpecDataset)             *)
(***************************************************************************)
\* no POST is between its arrival and its response
NoPostInFlight == \A r \in Posts : evalPc[r] \in {"idle", "succeeded", "failed"}

\* C16: once the POSTs issued so far have been answered and a dataset was
\* created or a POST succeeded, exactly one dataset of the name exists, it
\* holds the example set exactly once, and that set was added by the request
\* that created the dataset.
C16_OneDatasetOneExampleSet ==
    (/\ NoPostInFlight
     /\ datasets # <<>> \/ \E r \in Posts : evalPc[r] = "succeeded") =>
        /\ Len(datasets) = 1
        /\ datasets[1].exampleSets = <<datasets[1].creator>>

(***************************************************************************)
(* Fences in the cleaned SQL (checked under SpecClean)                     *)
(***************************************************************************)
\* C17: the SQL a cleanup routine returns for a response text contains no
\* Markdown fence, i.e. no three consecutive backquotes.
C17_NoFenceSurvives ==
    Len(cleanPasses) >= 1 => ~Contains(cleanPasses[1], Fence)

(***************************************************************************)
(* Properties of identify-relevant-tables                                  *)
(***************************************************************************)
\* some stretch of the text is a JSON array
HasParseableArray(text) ==
    \E i \in DOMAIN text : \E j \in DOMAIN text :
        i <= j /\ JsonParse(SubSeq(text, i, j)).ok

\* C20: every name identify-relevant-tables returns is one of the tables
\* sent in the request, whatever the LLM answered; an answer with no
\* parseable JSON array gives the empty list; and the page turns the empty
\* list into the error "No relevant tables identified for your query" and
\* ends the turn without fetching any columns.
C20_ReturnedTablesAreRequested ==
    /\ columnsPc # "identify" =>
          /\ \A i \in DOMAIN relevantTables :
                \E k \in DOMAIN requestTables :
                    requestTables[k] = relevantTables[i]
          /\ ~HasParseableArray(responseText) => relevantTables = <<>>
    /\ (columnsPc \in {"columns", "returned"} /\ relevantTables = <<>>) =>
          /\ columnsPc = "returned"
          /\ columnsError = "No relevant tables identified for your query"
          /\ columnPromises = <<>>
    /\ columnsPc = "columns" => relevantTables # <<>>

\* the LLM named a table that was not sent and one that was: only the one
\* that was sent came back, and its columns are being fetched
C20_Witness ==
    /\ responseText = <<"[", "ghost", ",", "orders", "]">>
    /\ requestTables = <<"orders", "users">>
    /\ relevantTables = <<"orders">>
    /\ columnsPc = "columns"

(***************************************************************************)
(* Properties of a running sendMessage call                                *)
(***************************************************************************)
\* C19: there is no cancellation.  While a sendMessage call awaits a step,
\* the only thing that moves it is that step's fetch settling: clearing the
\* conversation (a change of the selected environment or schema), a
\* refinement or a chart request leave the awaited step and the requests of
\* the call as they are.  When the fetch settles and no step of the call
\* has failed (a failed fetch, an SQL error, or no relevant table, which
\* the page reports as the error of the turn), the request of the next step
\* of the pipeline is issued.
C19_NoCancellation ==
    [][(sendPc # "idle" /\ page \in ChatPages) =>
        \/ /\ sendPc' = sendPc
           /\ turnLog' = turnLog
           /\ sendId' = sendId
           /\ sendResult' = sendResult
        \/ LET n == Len(turnLog)
               position == PositionOf(page, sendPc)
           IN  /\ Len(turnLog') >= n
               /\ \A i \in 1..(n - 1) : turnLog'[i] = turnLog[i]
               /\ turnLog'[n].step = sendPc
               /\ turnLog'[n].outcome # "pending"
               /\ ( /\ \A i \in 1..n : turnLog'[i].outcome = "ok"
                    /\ position < Len(Pipeline(page)) ) =>
                      /\ sendPc' = Pipeline(page)[position + 1]
                      /\ Len(turnLog') = n + 1
                      /\ turnLog'[n + 1].step = sendPc'
                      /\ turnLog'[n + 1].outcome = "pending"
      ]_vars

\* the conversation of DashboardCreator was cleared while its first call
\* was running, and the call has gone on to its last request
C19_Witness ==
    /\ page = "DashboardCreator"
    /\ turns = 1
    /\ clears = 1
    /\ messages = <<>>
    /\ sendPc = "interpret"
    /\ Len(turnLog) = Len(DashboardCreatorPipeline)
    /\ \A i \in 1..(Len(turnLog) - 1) : turnLog[i].outcome = "ok"

(***************************************************************************)
(* Properties of refineSQL (checked under SpecPage)                        *)
(***************************************************************************)
\* the messages that are in the conversation before and after a step
Staying == {i \in DOMAIN messages : i \in DOMAIN messages' /\ messages'[i].id = messages[i].id}

\* C21: a refinement runs refine, then execute, then evaluate.  A call
\* starts at refine-sql; it requests execute-sql only with the refined SQL
\* on the message and evaluate-sql-query only with the rows of the refined
\* execution on it; an execution that returns an error gives the message the
\* empty refinedResult, leaves its refinedEvaluation alone and ends the
\* call; a refinedEvaluation is only set by a call that awaited the
\* evaluation; and whenever a call ends, refiningSQL is null.
C21_RefineExecuteEvaluate ==
    [][/\ Len(refining') > Len(refining) =>
             refining'[Len(refining')].pc = "refine"
       /\ Len(refining') = Len(refining) =>
             \A k \in DOMAIN refining :
                 refining'[k] # refining[k] =>
                     /\ refining'[k].id = refining[k].id
                     /\ <<refining[k].pc, refining'[k].pc>> \in
                            {<<"refine", "execute">>, <<"execute", "evaluate">>}
                     /\ \A i \in Staying :
                            ( /\ messages[i].id = refining[k].id
                              /\ messages[i].role = "assistant" ) =>
                                /\ messages'[i].refinedSQL # Null
                                /\ refining'[k].pc = "evaluate" =>
                                       messages'[i].refinedResult = "rows"
       /\ Len(refining') < Len(refining) => refiningSQL' = NoId
       /\ refining' = <<>> => refiningSQL' = NoId
       /\ \A i \in Staying :
             /\ ( /\ messages'[i].refinedResult = "empty"
                  /\ messages[i].refinedResult # "empty" ) =>
                     /\ messages'[i].refinedEvaluation = messages[i].refinedEvaluation
                     /\ Len(refining') < Len(refining)
                     /\ \E k \in DOMAIN refining :
                            refining[k] = [id |-> messages[i].id, pc |-> "execute"]
             /\ messages'[i].refinedEvaluation # messages[i].refinedEvaluation =>
                     /\ Len(refining') < Len(refining)
                     /\ \E k \in DOMAIN refining :
                            refining[k] = [id |-> messages[i].id, pc |-> "evaluate"]
      ]_vars

\* a refinement whose execution returned an error has ended: the message
\* has the refined SQL and the empty result, no refined evaluation, and
\* refiningSQL is null again
C21_Witness ==
    /\ refines = 1
    /\ refining = <<>>
    /\ refiningSQL = NoId
    /\ \E i \in DOMAIN messages :
          /\ messages[i].refinedSQL = "sql"
          /\ messages[i].refinedResult = "empty"
          /\ messages[i].refinedEvaluation = <<>>

(***************************************************************************)
(* Properties of request validation (checked under SpecApi)                *)
(***************************************************************************)
\* the handler touched neither the database nor the chat-completion API
NothingCalled == apiConn = "none" /\ apiExt.connect = "na" /\ apiExt.llm = "na"

\* a field the handler tests or dereferences is not in the parsed body
FieldMissing == apiReq.json /\ ~(BodyFields(apiReq.endpoint) \subseteq apiReq.body)

\* C22: on every endpoint a request whose body lacks a field the handler
\* dereferences is answered with HTTP 400, never with a 500, and no
\* database connection was opened and no LLM call was made for it.
C22_MissingFieldIs400 ==
    (apiPc = "done" /\ FieldMissing) => (apiResp.status = 400 /\ NothingCalled)

(***************************************************************************)
(* Properties of generate-questions (checked under SpecQuestions)          *)
(***************************************************************************)
\* the position in the completion's array of its k-th question
NthQuestion(k) ==
    CHOOSE j \in DOMAIN questionsText.items :
        /\ IsQuestion(questionsText.items[j])
        /\ Cardinality({h \in 1..(j - 1) : IsQuestion(questionsText.items[h])}) = k - 1

\* C23: a successful generate-questions response holds between 1 and 10
\* questions, each a string that is not empty after trimming, and they are
\* the first questions of the LLM's array in the LLM's order; when the LLM
\* output yields no such string the response is an error, not an empty list.
C23_OneToTenQuestions ==
    questionsPc = "done" =>
        LET questions == questionsResp.questions
            written == {j \in DOMAIN questionsText.items :
                            IsQuestion(questionsText.items[j])}
        IN  IF questionsResp.status = 200
            THEN /\ Len(questions) \in 1..10
                 /\ Len(questions) = IF Cardinality(written) < 10
                                     THEN Cardinality(written) ELSE 10
                 /\ \A k \in DOMAIN questions :
                        /\ questions[k].type = "string"
                        /\ Trim(questions[k].text) # <<>>
                        /\ questions[k] = questionsText.items[NthQuestion(k)]
            ELSE /\ questionsResp.status = 500
                 /\ questionsResp.error # Null
                 /\ questions = <<>>
                 /\ written = {} \/ questionsText.shape \notin ArrayShapes

\* the LLM wrote twelve elements, the second of them blank: the response
\* holds the first ten questions, which skip the blank one
C23_Witness ==
    /\ questionsPc = "done"
    /\ questionsText.shape = "questions"
    /\ Len(questionsText.items) = 12
    /\ ~IsQuestion(questionsText.items[2])
    /\ questionsResp.status = 200
    /\ Len(questionsResp.questions) = 10
    /\ questionsResp.questions[2] = Question(3)
    /\ questionsResp.questions[10] = Question(11)

(***************************************************************************)
(* Properties of the interpretation step (checked under SpecPage)          *)
(***************************************************************************)
\* the step in which the interpret-results fetch of the running call fails
InterpretFails ==
    /\ sendPc = "interpret"
    /\ Len(turnLog') >= Len(turnLog)
    /\ turnLog'[Len(turnLog)].outcome = "failed"

\* C24: interpretation is optional.  When the interpret-results step fails,
\* the generated SQL and the query result of the turn stay as they were
\* (every message and the output states of a form page keep every field),
\* no error is recorded, and generateChart() of the chart page still
\* requests generate-chart-config, with an empty interpretation.
C24_InterpretationOptional ==
    [][InterpretFails =>
        /\ messages' = messages
        /\ form' = form
        /\ pageError' = pageError
        /\ IF page = "ChartJSGeneration"
           THEN /\ sendPc' = "chart"
                /\ Len(turnLog') = Len(turnLog) + 1
                /\ turnLog'[Len(turnLog')].step = "chart"
                /\ turnLog'[Len(turnLog')].outcome = "pending"
                /\ turnLog'[Len(turnLog')].attached = "empty interpretation"
                /\ form.interpretation = ""
           ELSE sendPc' = "idle" /\ Len(turnLog') = Len(turnLog)
      ]_vars

\* on the chart page the interpretation failed and the chart was drawn from
\* the SQL and the rows all the same
C24_Witness ==
    /\ page = "ChartJSGeneration"
    /\ sendPc = "idle"
    /\ Len(turnLog) = 4
    /\ turnLog[3].step = "interpret" /\ turnLog[3].outcome = "failed"
    /\ turnLog[4].step = "chart" /\ turnLog[4].attached = "empty interpretation"
    /\ turnLog[4].outcome = "ok"
    /\ form = [generatedSQL |-> "sql", queryResults |-> "rows",
               interpretation |-> "", chartConfig |-> "config"]
    /\ pageError = Null

(***************************************************************************)
(* Properties of the loading flags (checked under SpecPage)                *)
(***************************************************************************)
PipelineFlags ==
    {"identifyingTables", "fetchingColumns", "generatingSQL", "executingSQL",
     "evaluating", "generatingInterpretation"}

\* C25: on a chat page at most one of the pipeline loading flags is true,
\* it is the flag of the step the running sendMessage call awaits, and a
\* turn starts only while all of them are false and no call is running,
\* so two sendMessage calls never overlap.
C25_OneFlagOneChain ==
    [][(page \in ChatPages) =>
        /\ Cardinality(loading' \cap PipelineFlags) <= 1
        /\ sendPc' # "idle" => loading' = {FlagOf(sendPc')}
        /\ sendPc' = "idle" => loading' = {}
        /\ turns' # turns =>
              /\ loading \cap PipelineFlags = {}
              /\ sendPc = "idle"
              /\ \A i \in DOMAIN turnLog : turnLog[i].outcome # "pending"
      ]_vars

\* the second turn of DashboardCreator awaits its evaluation: that flag
\* alone is true and the input is disabled
C25_Witness ==
    /\ page = "DashboardCreator"
    /\ turns = 2
    /\ sendPc = "evaluate"
    /\ loading = {"evaluating"}
    /\ InputDisabled(page)

\* C26: every request chain ends with the UI enabled again.  With every
\* fetch eventually settling, a running sendMessage / generateSQL /
\* generateChart call eventually returns, and when it has returned all
\* loading flags are false and the input is enabled, on the success path
\* and on every failure path.
C26_ChainEndsEnabled ==
    (sendPc # "idle") ~> (sendPc = "idle" /\ loading = {} /\ ~InputDisabled(page))

\* a call of the chart page has returned from the early return after a
\* failed execution, with every flag false
C26_Witness ==
    /\ page = "ChartJSGeneration"
    /\ sendPc = "idle"
    /\ Len(turnLog) = 2
    /\ turnLog[2].step = "execute" /\ turnLog[2].outcome = "error"
    /\ loading = {}
    /\ ~InputDisabled(page)

\* C27: for every message at most one refinement is in flight: while a
\* refineSQL call of a message is running, the refine action of that message
\* is not available (its button is not rendered or is disabled), whatever
\* refinements of other messages start or end in the meantime.
C27_RunningRefinementDisabled ==
    \A k \in DOMAIN refining : \A i \in DOMAIN messages :
        (messages[i].role = "assistant" /\ messages[i].id = refining[k].id)
            => ~(RefineShown(page, messages[i]) /\ refiningSQL # messages[i].id)

\* C29: in every reachable state of a chat page every assistant message has
\* not both an error and a result, has a result only if its sql is a
\* non-empty string, and has an interpretation only if it has a result; on
\* the chart page chartConfig is non-null only if queryResults is non-null
\* and generatedSQL is non-empty.
C29_FieldsConsistent ==
    /\ (page \in ChatPages) =>
          \A i \in DOMAIN messages :
              messages[i].role = "assistant" =>
                  /\ ~(messages[i].error # Null /\ messages[i].result # Null)
                  /\ messages[i].result # Null => messages[i].sql \notin {Null, ""}
                  /\ messages[i].interpretation # Null => messages[i].result # Null
    /\ (page = "ChartJSGeneration") =>
          (form.chartConfig # Null =>
              form.queryResults # Null /\ form.generatedSQL # "")

\* a turn whose generate-sql answer was an empty sql has ended: the message
\* holds the sql "" and the error of the refused execution, and no result
C29_Witness ==
    /\ page = "NaturalLanguageChat"
    /\ sendPc = "idle"
    /\ \E i \in DOMAIN messages :
          /\ messages[i].role = "assistant"
          /\ messages[i].sql = ""
          /\ messages[i].error = "Failed to execute SQL"
          /\ messages[i].result = Null

\* C28: the displayed metadata matches the current selection: once no
\* introspection fetch is in flight (and none has failed), the tables list
\* is the one of the selected schema and the columns and sample data are
\* those of the selected table, whatever the order of the selections and
\* of the responses.
C28_DisplayedMatchesSelection ==
    (fetches = {} /\ fetchError = {}) =>
        /\ selectedSchema # "" => tableList = TablesOf(selectedSchema)
        /\ selectedTable # "" =>
              /\ columnList = ColumnsOf(selectedSchema, selectedTable)
              /\ sampleData = SampleOf(selectedSchema, selectedTable)

====
